---- MODULE Spec2Model ----
(***************************************************************************)
(* Decoding pipeline of logic-trace-parser: the USB byte decoder, the USB  *)
(* packet decoder, the USB protocol (transaction) stage and the serial     *)
(* decoder, each as a pull iterator over (timestamp, event) pairs.         *)
(*                                                                         *)
(* Time is counted in integer ticks.  For the USB stages one tick is a     *)
(* quarter of a full-speed bit (1/48,000,000 s); for the serial decoder    *)
(* one tick is half a bit.  f64 arithmetic is modelled exactly on these    *)
(* grids (no rounding error).                                              *)
(***************************************************************************)
EXTENDS Integers, Sequences, FiniteSets, TLC

VARIABLES
    overflow_checks, \* build profile: TRUE = debug (arithmetic overflow panics)
    sig,             \* SignalIterator feeding the byte decoder
    it,              \* ByteIterator.it: the PeekNth buffer (items pulled, not consumed)
    it_done,         \* the fused upstream of PeekNth has returned None
    byteIt,          \* ByteIterator: state, counter, shift_reg, consecutive_ones, ev_queue
    byteStep,        \* the last pass of the body of ByteIterator::next's loop
    byteOut,         \* the events ByteIterator::next has returned so far
    sent,            \* the bytes encoded onto the bus (bit-stuffing round trip)
    transaction_state,  \* ProtocolIterator.transaction_state
    protoN,          \* packets the protocol stage has pulled from its upstream
    protoStep,       \* the last pass of the loop in ProtocolIterator::next
    accepted,        \* the Token packet most recently accepted in state Idle
    buf,             \* the local `buf` of the running PacketIterator::next call
    pktStep,         \* the last pass of the loop in PacketIterator::next
    rx,              \* Serial.rx, the Monitor of Rx + RTS
    tx,              \* Serial.tx, the Monitor of Tx + CTS
    pending_event,   \* Serial.pending_event
    serIn,           \* the samples Serial has pulled: how many, the last timestamp
    serOut,          \* the events Serial::next has returned so far
    serStep,         \* the last pass of the loop in Serial::next
    masks,           \* Serial.tx_mask, rx_mask, rts_mask, cts_mask
    crcIn,           \* the byte slice handed to crc5 / crc16
    crcOut,          \* what crc5 and crc16 returned for it
    request_state,   \* ControlEndpoint.request_state
    endpoints,       \* DeviceEventIterator.endpoints: the keys of the map
    ctlStep,         \* the last call of ControlEndpoint::update
    cs,              \* Spif.cs: the chip-select level last seen
    idx,             \* Spif.idx
    partial,         \* Spif.partial
    spifStep,        \* the last pass of the loop in Spif::next
    spifWin,         \* the SPI events pulled since chip select and since the command byte
    vcd,             \* VcdParser: factor, first_ts, current_ts, vars, state, stopped
    vcdStep,         \* the last call of VcdParser::next
    vcdOut,          \* the events VcdParser::next has returned so far
    channels,        \* the channel files of a Logic 2 export, and how the merge breaks ties
    logic2,          \* new_parser's closure: the merged transitions left, current_state
    logic2Step,      \* what the last call of LogicData::next returned
    logic2Out,       \* the events LogicData::next has returned so far
    logic,           \* source::logic::LogicDataParser: input, freq, current_ts, stopped
    logicdata,       \* input::logicdata::LogicDataParser: input, freq, current_ts
    logicStep,       \* the last pull of either parser
    logicOut,        \* what source::logic::LogicDataParser::next has returned so far
    logicdataOut,    \* what input::logicdata::LogicDataParser::next has returned so far
    pipeline,        \* the stack of stages the builders work on, its top last
    buildStep,       \* the last builder called, the stack it found and how it ended
    header,          \* the buffer handed to parse_common_header
    parsed,          \* what parse_common_header returned for it
    response,        \* the buffer handed to PlainInterfaceDescriptor::parse
    read_ptr,        \* PlainInterfaceDescriptor::parse: the bytes not yet consumed
    iface,           \* PlainInterfaceDescriptor::parse: position, class, counts, result
    ifaceStep,       \* the last step of the parse: what it read and what it made of it
    devStep,         \* DeviceEventIterator::next: the last upstream event and what became of it
    wiz,             \* Wizfi310: data_to_send, data_to_receive, recv_header, tx, rx
    wizStep          \* Wizfi310::next: the last upstream event and what became of it

byteVars == <<overflow_checks, sig, it, it_done, byteIt, byteStep, byteOut, sent>>

protoVars == <<transaction_state, protoN, protoStep, accepted>>

pktVars == <<buf, pktStep>>

serVars == <<rx, tx, pending_event, serIn, serOut, serStep, masks>>

crcVars == <<crcIn, crcOut>>

ctlVars == <<request_state, endpoints, ctlStep>>

spifVars == <<cs, idx, partial, spifStep, spifWin>>

vcdVars == <<vcd, vcdStep, vcdOut>>

logic2Vars == <<channels, logic2, logic2Step, logic2Out>>

logicVars == <<logic, logicdata, logicStep, logicOut, logicdataOut>>

buildVars == <<pipeline, buildStep>>

headerVars == <<header, parsed>>
descVars == <<response, read_ptr, iface, ifaceStep>>
devVars == <<devStep>>
wizVars == <<wiz, wizStep>>

vars == <<byteVars, protoVars, pktVars, serVars, crcVars, ctlVars, spifVars, vcdVars, logic2Vars, logicVars, buildVars, headerVars, descVars, devVars, wizVars>>

----------------------------------------------------------------------------
(* Bit arithmetic on unsigned integers *)

Pow2(n) == 2 ^ n
U16 == 65536

RECURSIVE BitOp(_, _, _, _)
\* op = "or" | "xor" | "and" over the low n bits
BitOp(op, a, b, n) ==
    IF n = 0 THEN 0
    ELSE LET x == a % 2
             y == b % 2
             z == CASE op = "or" -> IF x + y > 0 THEN 1 ELSE 0
                    [] op = "xor" -> (x + y) % 2
                    [] OTHER -> x * y
         IN z + 2 * BitOp(op, a \div 2, b \div 2, n - 1)

Shr(a, n) == a \div Pow2(n)

----------------------------------------------------------------------------
(* USB byte decoder: src/src/usb/byte.rs *)

BitLen == 4
ResetLen == 480000
INFINITY == 1000000000

MaxSignals == 5

Signal == {"SE0", "J", "K", "SE1"}

\* durations a signal of the capture may last, per signal
Gaps(s) ==
    CASE s \in {"J", "K"} -> {1, BitLen, 7 * BitLen}
      [] s = "SE0" -> {1, 2 * BitLen - 1, ResetLen + 1}
      [] s = "SE1" -> {1, BitLen}
      [] OTHER -> {1}

Ev(ts, kind, val, msg) == [ts |-> ts, kind |-> kind, val |-> val, msg |-> msg]
EvOk(ts, kind) == Ev(ts, kind, 0, "")
EvErr(ts, msg) == Ev(ts, "Err", 0, msg)

NoStep == [n |-> 0, sig0 |-> "None", t0 |-> 0, next_ts |-> 0, ulen |-> 0,
           before |-> "Idle", dropped |-> <<>>, head |-> "None", head_ts |-> 0,
           pushed |-> << >>]

ByteIteratorNew ==
    [state |-> "Idle", counter |-> 0, shift_reg |-> 0, consecutive_ones |-> 0,
     ev_queue |-> <<>>, panic |-> "none"]

\* f64::round of a non-negative quotient, then `as u64`
Round(len) == (2 * len + BitLen) \div (2 * BitLen)

\* ByteIterator::push_bits
\* push_bits without the bit-stuffing adjustment: every period pushes ulen bits
push_bits_unstuffed(self, ulen) ==
    IF ulen = 0
    THEN [self EXCEPT !.panic = "attempt to subtract with overflow"]
    ELSE LET consecutive_ones == ulen - 1
             sr == Shr(self.shift_reg, ulen)
             mask == Pow2(consecutive_ones) - 1
         IN [self EXCEPT
               !.counter = (self.counter + ulen) % U16,
               !.shift_reg =
                   IF consecutive_ones # 0
                   THEN BitOp("or", sr, (mask * Pow2(16 - consecutive_ones)) % U16, 16)
                   ELSE sr,
               !.consecutive_ones = ulen - 1]

push_bits(self, ulen) ==
    IF ulen = 0
    THEN IF overflow_checks
         THEN [self EXCEPT !.panic = "attempt to subtract with overflow"]
         ELSE \* wrapping arithmetic: ulen - 1 = u64::MAX; shifts mask their amount
              LET bits == IF self.consecutive_ones = 6 THEN U16 - 1 ELSE 0
                  sr == Shr(self.shift_reg, bits % 16)
                  mask == Pow2(15) - 1
              IN [self EXCEPT !.counter = (self.counter + bits) % U16,
                              !.shift_reg = BitOp("or", sr, (mask * 2) % U16, 16),
                              !.consecutive_ones = 255]
    ELSE LET consecutive_ones == ulen - 1
             bits == IF self.consecutive_ones = 6 THEN ulen - 1 ELSE ulen
             sr == Shr(self.shift_reg, bits)
             mask == Pow2(consecutive_ones) - 1
         IN IF self.counter + bits >= U16 /\ overflow_checks
            THEN [self EXCEPT !.panic = "attempt to add with overflow"]
            ELSE [self EXCEPT
                    !.counter = (self.counter + bits) % U16,
                    !.shift_reg =
                        IF consecutive_ones # 0
                        THEN BitOp("or", sr,
                                   (mask * Pow2(16 - consecutive_ones)) % U16, 16)
                        ELSE sr,
                    !.consecutive_ones = ulen - 1]

PushEv(self, ev) == [self EXCEPT !.ev_queue = Append(self.ev_queue, ev)]

\* the glitch test of the look-ahead loop (byte.rs:95-96)
Coalesced(sig0, sig1, duration) ==
    sig0 = sig1 \/ (sig1 \in {"SE0", "SE1"} /\ 2 * duration < BitLen)

\* The look-ahead loop (byte.rs:82-102) over the items after the current one.
\* status "more": the loop needs an item the upstream has not produced yet.
RECURSIVE Coalesce(_, _, _, _)
Coalesce(sig0, rest, done, dropped) ==
    IF rest = <<>>
    THEN IF done
         THEN [status |-> "ok", next_ts |-> INFINITY, rest |-> rest, dropped |-> dropped]
         ELSE [status |-> "more", next_ts |-> 0, rest |-> rest, dropped |-> dropped]
    ELSE IF rest[1].sig = "Err"
    THEN [status |-> "ok", next_ts |-> INFINITY, rest |-> rest, dropped |-> dropped]
    ELSE IF Len(rest) = 1
    THEN IF done
         THEN [status |-> "ok", next_ts |-> INFINITY, rest |-> rest, dropped |-> dropped]
         ELSE [status |-> "more", next_ts |-> 0, rest |-> rest, dropped |-> dropped]
    ELSE IF ~Coalesced(sig0, rest[1].sig, rest[2].ts - rest[1].ts)
    THEN [status |-> "ok", next_ts |-> rest[1].ts, rest |-> rest, dropped |-> dropped]
    ELSE Coalesce(sig0, Tail(rest), done, Append(dropped, rest[1]))

\* State::Reset arm (byte.rs:118-126)
OnReset(self, sig0, t0) ==
    [PushEv(self, IF sig0 = "J" THEN EvOk(t0, "Idle")
                  ELSE EvErr(t0, "Unexpected bus state after Reset"))
        EXCEPT !.state = "Idle"]

\* State::Idle arm (byte.rs:127-139)
OnIdle(self, sig0, ulen) ==
    IF sig0 = "K"
    THEN IF ulen >= 7
         THEN [self EXCEPT !.state = "Suspended"]
         ELSE push_bits([self EXCEPT !.state = "Receiving"], ulen)
    ELSE self

\* State::Receiving arm (byte.rs:140-151)
OnReceiving(self, sig0, t0, ulen) ==
    IF sig0 = "SE0" /\ ulen = 2
    THEN IF self.counter # 0
         THEN [self EXCEPT !.panic = "assertion failed: counter == 0"]
         ELSE [self EXCEPT !.state = "EopStart"]
    ELSE IF ulen <= 7 /\ sig0 \in {"K", "J"}
    THEN push_bits(self, ulen)
    ELSE [PushEv(self, EvErr(t0, "Framing Error")) EXCEPT !.state = "Idle"]

\* State::EopStart arm (byte.rs:152-169)
\* the EopStart arm with Eop stamped at the J's start instead of backdated
OnEopStart_unbackdated(self, sig0, t0, ulen) ==
    IF sig0 = "J" /\ ulen >= 1
    THEN LET s1 == [PushEv(self, EvOk(t0, "Eop")) EXCEPT !.state = "Idle"]
         IN IF ulen > 1 THEN PushEv(s1, EvOk(t0 + BitLen, "Idle")) ELSE s1
    ELSE [PushEv(self, EvErr(t0, "Unexpected bus state after start of End of Packet"))
            EXCEPT !.state = "Idle"]

OnEopStart(self, sig0, t0, ulen) ==
    IF sig0 = "J" /\ ulen >= 1
    THEN LET s1 == [PushEv(self, EvOk(t0 - 2 * BitLen, "Eop")) EXCEPT !.state = "Idle"]
         IN IF ulen > 1 THEN PushEv(s1, EvOk(t0 + BitLen, "Idle")) ELSE s1
    ELSE [PushEv(self, EvErr(t0, "Unexpected bus state after start of End of Packet"))
            EXCEPT !.state = "Idle"]

\* State::Suspended arm (byte.rs:170-181)
OnSuspended(self, sig0, t0, ulen) ==
    IF sig0 = "SE0" /\ ulen = 2
    THEN [self EXCEPT !.state = "EopStart"]
    ELSE [PushEv(self, EvErr(t0, "Unexpected bus state after suspended state."))
            EXCEPT !.state = "Idle"]

\* the bus-reset test (byte.rs:111)
IsBusReset(sig0, len) == sig0 = "SE0" /\ len > ResetLen

\* the dispatch on signal and state (byte.rs:108-183)
Dispatch(self, sig0, t0, ulen, len) ==
    IF sig0 = "SE1"
    THEN PushEv(self, EvErr(t0, "Unexpected bus state"))
    ELSE IF IsBusReset(sig0, len)
    THEN [PushEv(self, EvOk(t0, "Reset")) EXCEPT !.state = "Reset", !.counter = 0]
    ELSE CASE self.state = "Reset" -> OnReset(self, sig0, t0)
           [] self.state = "Idle" -> OnIdle(self, sig0, ulen)
           [] self.state = "Receiving" -> OnReceiving(self, sig0, t0, ulen)
           [] self.state = "EopStart" -> OnEopStart(self, sig0, t0, ulen)
           [] OTHER -> OnSuspended(self, sig0, t0, ulen)

\* the byte emission closing a pass of the loop (byte.rs:184-192)
EmitByte(self, nts) ==
    IF self.panic # "none" \/ self.counter < 8 THEN self
    ELSE IF self.counter > 16 /\ overflow_checks
    THEN [self EXCEPT !.panic = "attempt to subtract with overflow"]
    ELSE LET amt == ((16 - self.counter) % U16) % 16
             v == Shr(self.shift_reg, amt) % 256
         IN [PushEv(self, Ev(nts, "Byte", v, "")) EXCEPT !.counter = self.counter - 8]

----------------------------------------------------------------------------
(* USB protocol stage: src/src/usb/protocol.rs *)

MaxPackets == 4

TokenType == {"Setup", "In"}
Tokens == [token_type : TokenType, address : {1}, endpoint : {0, 1}]
DataPID == {"Data0", "Data1"}
Datas == [pid : DataPID, payload : {<<>>, <<1>>}]
HandShake == {"Ack", "NAck", "Stall"}

\* what the packet stage can hand over: Ok(Packet) or Err
Packets ==
    {[kind |-> "Reset"], [kind |-> "Err"]}
        \cup {[kind |-> "SoF", frm_num |-> f] : f \in {0, 1}}
        \cup {[kind |-> "Token", token |-> t] : t \in Tokens}
        \cup {[kind |-> "Data", data |-> d] : d \in Datas}
        \cup {[kind |-> "HandShake", handshake |-> h] : h \in HandShake}

None == [kind |-> "None"]

\* a pull that returns None: the stream is at its end
EndOfStream == [kind |-> "End"]

TsIdle == [kind |-> "Idle"]
TsToken(token) == [kind |-> "Token", token |-> token]
TsData(token, data) == [kind |-> "Data", token |-> token, data |-> data]

ProtocolIteratorNew == TsIdle

\* `out` of one pass of the loop: None when the loop goes round again
Pass(st, out) == [state |-> st, out |-> out]
OutErr(msg) == [kind |-> "Err", msg |-> msg]

Packet_Reset(st) == Pass(TsIdle, [kind |-> "Reset"])

Packet_SoF(st, frm_num) == Pass(st, [kind |-> "Sof", frm_num |-> frm_num])

Packet_Token(st, token) ==
    IF st.kind = "Idle"
    THEN Pass(TsToken(token), None)
    ELSE Pass(st, OutErr("Unexpected token packet"))

\* the Data arm accepting a Data packet whenever a token is pending
Packet_Data_replacing(st, data) ==
    IF st.kind \in {"Token", "Data"}
    THEN Pass(TsData(st.token, data), None)
    ELSE Pass(st, OutErr("Unexpected data packet"))

Packet_Data(st, data) ==
    IF st.kind = "Token"
    THEN Pass(TsData(st.token, data), None)
    ELSE Pass(st, OutErr("Unexpected data packet"))

\* the HandShake arm without `self.transaction_state = TransactionState::Idle`
Packet_HandShake_keeping(st, handshake) ==
    CASE st.kind = "Token" ->
            Pass(st, [kind |-> "Transaction", token |-> st.token,
                      data |-> None, handshake |-> handshake])
      [] st.kind = "Data" ->
            Pass(st, [kind |-> "Transaction", token |-> st.token,
                      data |-> st.data, handshake |-> handshake])
      [] OTHER -> Pass(st, OutErr("Unexpected handshake packet"))

Packet_HandShake(st, handshake) ==
    CASE st.kind = "Token" ->
            Pass(TsIdle, [kind |-> "Transaction", token |-> st.token,
                          data |-> None, handshake |-> handshake])
      [] st.kind = "Data" ->
            Pass(TsIdle, [kind |-> "Transaction", token |-> st.token,
                          data |-> st.data, handshake |-> handshake])
      [] OTHER -> Pass(st, OutErr("Unexpected handshake packet"))

Packet_Err(st) == Pass(st, OutErr("upstream"))

NoPacket == [n |-> 0, pkt |-> None, before |-> TsIdle, out |-> None]

ProtoIdle ==
    /\ transaction_state = ProtocolIteratorNew
    /\ protoN = 0
    /\ protoStep = NoPacket
    /\ accepted = None

----------------------------------------------------------------------------
(* USB packet decoder: src/src/usb/types.rs (crc5, crc16), src/src/usb/packet.rs *)

U8 == 256

RECURSIVE crc5_bits(_, _, _)
crc5_bits(acc, b, n) ==
    IF n = 0 THEN acc
    ELSE LET do_xor == (b % 2) # (Shr(acc, 4) % 2)
             shifted == (acc * 2) % U8
             xored == IF do_xor THEN BitOp("xor", shifted, 5, 8) ELSE shifted
             masked == BitOp("and", xored, 31, 8)
         IN CASE masked \in 0..(U8 - 1) -> crc5_bits(masked, Shr(b, 1), n - 1)

RECURSIVE crc5_from(_, _)
crc5_from(acc, v) ==
    IF v = <<>> THEN acc ELSE crc5_from(crc5_bits(acc, Head(v), 8), Tail(v))

\* crc5 started from an all-zero accumulator
crc5_zero_init(v) == crc5_from(0, v)

crc5(v) == crc5_from(31, v)

RECURSIVE crc16_bits(_, _, _)
crc16_bits(acc, b, n) ==
    IF n = 0 THEN acc
    ELSE LET do_xor == (b % 2) # (Shr(acc, 15) % 2)
             shifted == (acc * 2) % U16
             xored == IF do_xor THEN BitOp("xor", shifted, 32773, 16) ELSE shifted
         IN CASE xored \in 0..(U16 - 1) -> crc16_bits(xored, Shr(b, 1), n - 1)

RECURSIVE crc16_from(_, _)
crc16_from(acc, v) ==
    IF v = <<>> THEN acc ELSE crc16_from(crc16_bits(acc, Head(v), 8), Tail(v))

crc16(v) == crc16_from(65535, v)

CrcIdle ==
    /\ crcIn = <<>>
    /\ crcOut = None

SOF_PID == 165
TOKEN_PIDS == {225, 105, 45, 180}
SPLIT_PID == 120
DATA_PIDS == {195, 75, 23, 15}
HANDSHAKE_PIDS == {210, 90, 30, 150, 60}

token_type(pid) ==
    IF pid = 225 THEN "Out" ELSE IF pid = 105 THEN "In"
    ELSE IF pid = 45 THEN "Setup" ELSE "Ping"

data_pid(pid) ==
    IF pid = 195 THEN "Data0" ELSE IF pid = 75 THEN "Data1"
    ELSE IF pid = 23 THEN "Data2" ELSE "MData"

handshake(pid) ==
    CASE pid = 210 -> "Ack" [] pid = 90 -> "NAck" [] pid = 30 -> "Stall"
      [] pid = 150 -> "NYet" [] OTHER -> "Err"

PktErr(msg) == [kind |-> "Err", msg |-> msg]
PktPanic(msg) == [kind |-> "Panic", msg |-> msg]

\* ensure! that never fails
ensure_unchecked(cond, msg, rest) == rest

\* anyhow::ensure!(cond, msg); then the rest of the arm
ensure(cond, msg, rest) == IF cond THEN rest ELSE PktErr(msg)

\* <Packet as TryFrom<&[u8]>>::try_from
Packet_try_from(b) ==
    IF b = <<>> THEN PktPanic("index out of bounds")
    ELSE ensure(b[1] = 128, "Invalid sync byte",
        LET rest == Tail(b)
            n == Len(rest)
        IN CASE n = 3 /\ rest[1] = SOF_PID ->
                  ensure(crc5(SubSeq(b, 3, Len(b))) = 12, "Crc error",
                      [kind |-> "SoF",
                       frm_num |-> BitOp("and",
                                         BitOp("or", rest[3] * U8, rest[2], 16),
                                         2047, 16)])
             [] n = 3 /\ rest[1] \in TOKEN_PIDS ->
                  ensure(crc5(<<rest[2], rest[3]>>) = 12, "Crc error",
                      [kind |-> "Token",
                       token |-> [token_type |-> token_type(rest[1]),
                                  address |-> BitOp("and", rest[2], 127, 8),
                                  endpoint |->
                                      BitOp("or",
                                            (BitOp("and", rest[3], 7, 8) * 2) % U8,
                                            Shr(rest[2], 7), 8)]])
             [] n = 4 /\ rest[1] = SPLIT_PID ->
                  ensure(crc5(SubSeq(b, 3, Len(b))) = 12, "Crc Error",
                      PktPanic("not implemented: Split tokens are not supported"))
             [] n >= 3 /\ rest[1] \in DATA_PIDS ->
                  ensure(crc16(SubSeq(b, 3, Len(b))) = 32781, "CRC Error",
                      [kind |-> "Data",
                       data |-> [pid |-> data_pid(rest[1]),
                                 payload |-> SubSeq(rest, 2, n - 2)]])
             [] n = 1 /\ rest[1] \in HANDSHAKE_PIDS ->
                  [kind |-> "HandShake", handshake |-> handshake(rest[1])]
             [] OTHER -> PktErr("Unknown packet"))

MaxBuf == 5
PktBytes == {128, 165, 45, 195, 210, 120, 0, 130, 238}

NoByte == [n |-> 0, byte |-> None, before |-> <<>>, out |-> None]

PktIdle ==
    /\ buf = <<>>
    /\ pktStep = NoByte

----------------------------------------------------------------------------
(* Serial decoder: src/src/serial.rs.  One tick is half a bit, at 20 baud.  *)

SerBit == 2                \* bit_duration = 1 / baud
SerBitAndHalf == 3         \* bit_duration * 1.5
MonitorTs0 == -4           \* Monitor::new: ts = -0.1 (seconds)

\* --tx 0 --rx 1 --cts 2, rts not given, --parity none
tx_mask == 1
rx_mask == 2
cts_mask == 4
rts_mask == 0
parity == "None"

MonitorNew(name) ==
    [name |-> name, state |-> "Idle", reg |-> 0, shift |-> 0, ts |-> MonitorTs0,
     data |-> TRUE, last_fc |-> FALSE, panic |-> FALSE]

SerEv(ts, kind, val) == [ts |-> ts, kind |-> kind, val |-> val]

on_data(self, ts, reg) == SerEv(ts, IF self.name = "rx" THEN "Rx" ELSE "Tx", reg)
on_err(self, ts) ==
    SerEv(ts, IF self.name = "rx" THEN "RxError" ELSE "TxError", "Framing")
on_fc(self, ts, fc) == SerEv(ts, IF self.name = "rx" THEN "Rts" ELSE "Cts", fc)

\* the while loop of Monitor::update; r carries self and res[0]
RECURSIVE update_loop(_, _, _)
update_loop(r, ts, data) ==
    LET self == r.self
        to(new_ts, st, reg, shift) ==
            [self EXCEPT !.ts = new_ts, !.state = st, !.reg = reg, !.shift = shift]
    IN IF ~(self.ts < ts) THEN r
       ELSE CASE self.state = "Idle" /\ ~data ->
                   update_loop([r EXCEPT !.self = to(ts, "Start", 0, 0)], ts, data)
              [] self.state = "Idle" ->
                   update_loop([r EXCEPT !.self = to(ts, "Idle", 0, 0)], ts, data)
              [] self.state = "Start" /\ self.ts + SerBitAndHalf < ts ->
                   update_loop([r EXCEPT !.self =
                                   to(self.ts + SerBitAndHalf, "Data",
                                      IF self.data THEN 128 ELSE 0, 1)], ts, data)
              [] self.state = "Data" /\ self.ts + SerBit < ts ->
                   LET shift == self.shift + 1
                       shifted == Shr(self.reg, 1)
                       reg == IF self.data THEN BitOp("or", shifted, 128, 8) ELSE shifted
                   IN update_loop([r EXCEPT !.self =
                                      to(self.ts + SerBit,
                                         IF shift = 8
                                         THEN IF parity # "None" THEN "Parity" ELSE "Stop"
                                         ELSE "Data",
                                         reg, IF shift = 8 THEN 0 ELSE shift)], ts, data)
              [] self.state = "Parity" -> [r EXCEPT !.self.panic = TRUE]
              [] self.state = "Stop" /\ self.ts + SerBit < ts ->
                   update_loop([self |-> to(self.ts + SerBit, "Idle", 0, 0),
                                res0 |-> IF ~self.data
                                         THEN <<on_err(self, self.ts)>>
                                         ELSE <<on_data(self, self.ts, self.reg)>>],
                               ts, data)
              [] OTHER -> r

\* Monitor::update: the new Monitor and res[0], res[1] (each empty or one event)
update(self, ts, data, fc) ==
    LET res1 == IF self.last_fc # fc THEN <<on_fc(self, ts, fc)>> ELSE <<>>
        r == update_loop([self |-> [self EXCEPT !.last_fc = fc], res0 |-> <<>>],
                         ts, data)
    IN [self |-> IF r.self.panic THEN r.self ELSE [r.self EXCEPT !.data = data],
        res |-> r.res0 \o res1]

\* Monitor::finalize
finalize(self) ==
    [self |-> [self EXCEPT !.state = "Idle", !.reg = 0, !.shift = 0],
     res |-> CASE self.state = "Idle" -> <<>>
               [] self.state \in {"Start", "Data", "Parity"} -> <<on_err(self, self.ts)>>
               [] OTHER -> <<on_data(self, self.ts, self.reg)>>]

\* (smp & mask) == mask
Masked(smp, mask) == BitOp("and", smp, mask, 8) = mask

\* sort_unstable_by(|a, b| b.0.partial_cmp(&a.0)): descending timestamps, events
\* with equal timestamps in any order
SortedDescending(q) ==
    {p \in {[i \in 1..Len(q) |-> q[f[i]]] : f \in Permutations(1..Len(q))} :
        \A i \in 1..(Len(p) - 1) : p[i].ts >= p[i + 1].ts}

MaxSamples == 3
Samples == 0..7
SampleGaps == {1, SerBit, 9 * SerBit}

\* rx, tx: the state each Monitor::update left its monitor in; finalized: both
\* monitors were finalized afterwards
NoSerStep == [n |-> 0, rx |-> "Idle", tx |-> "Idle", finalized |-> FALSE]

SerIdle ==
    /\ rx = MonitorNew("rx")
    /\ tx = MonitorNew("tx")
    /\ pending_event = <<>>
    /\ serIn = [n |-> 0, ts |-> 0]
    /\ serOut = <<>>
    /\ serStep = NoSerStep
    /\ masks = [tx |-> tx_mask, rx |-> rx_mask, rts |-> rts_mask, cts |-> cts_mask]

----------------------------------------------------------------------------
(* USB control endpoint: src/src/usb/device/types.rs (Request),             *)
(* src/src/usb/device/control.rs (ControlEndpoint)                          *)

Ok(v) == [ok |-> TRUE, v |-> v]
Fail(msg) == [ok |-> FALSE, msg |-> msg]

Some(v) == [kind |-> "Some", v |-> v]

u16_from_le_bytes(lo, hi) == lo + 256 * hi

\* PackedRequestType
direction(b) == IF BitOp("and", b, 128, 8) = 128 THEN "In" ELSE "Out"

request_type(b) ==
    LET ptype == BitOp("and", Shr(b, 5), 3, 8)
    IN IF ptype = 0 THEN "Standard"
       ELSE IF ptype = 1 THEN "Class"
       ELSE IF ptype = 2 THEN "Vendor"
       ELSE "Reserved"

recipient(b) ==
    LET r == BitOp("and", b, 31, 8)
    IN CASE r = 0 -> [kind |-> "Device"]
         [] r = 1 -> [kind |-> "Interface"]
         [] r = 2 -> [kind |-> "Endpoint"]
         [] r = 3 -> [kind |-> "Other"]
         [] OTHER -> [kind |-> "Reserved", n |-> r]

DEVICE_DESCRIPTOR == 1
CONFIGURATION_DESCRIPTOR == 2
STRING_DESCRIPTOR == 3
DEVICE_QUALIFIER_DESCRIPTOR == 6
OTHER_SPEED_CONFIGURATION_DESCRIPTOR == 7
BINARY_OBJECT_STORE_DESCRIPTOR == 15

\* Result::map: Ok(v) becomes Ok(f(v)) for the wrapping variant `kind`, an Err
\* is handed on (the `?` operator)
Wrapped(kind, field, r) ==
    IF r.ok THEN Ok([kind |-> kind] @@ (field :> r.v)) ELSE r

\* The LanguageId of a String descriptor is kept as its u16 code.
GetDescriptorType_match(value_high, value_low, index) ==
    CASE value_high = DEVICE_DESCRIPTOR /\ value_low = 0 /\ index = 0 ->
           Ok([kind |-> "Device"])
      [] value_high = CONFIGURATION_DESCRIPTOR /\ index = 0 ->
           Ok([kind |-> "Configuration", index |-> value_low])
      [] value_high = STRING_DESCRIPTOR ->
           Ok([kind |-> "String", index |-> value_low, lang |-> index])
      [] value_high = DEVICE_QUALIFIER_DESCRIPTOR /\ value_low = 0 /\ index = 0 ->
           Ok([kind |-> "DeviceQualifier"])
      [] value_high = OTHER_SPEED_CONFIGURATION_DESCRIPTOR /\ value_low = 0 /\ index = 0 ->
           Ok([kind |-> "OtherSpeedConfiguration"])
      [] value_high = BINARY_OBJECT_STORE_DESCRIPTOR ->
           Ok([kind |-> "BinaryObjectStore", index |-> value_low, lang |-> index])
      [] OTHER -> Fail("Invalid descriptor type")

GetDescriptorType_try_from(value, index) ==
    GetDescriptorType_match(Shr(value, 8) % U8, value % U8, index)

StandardRequest_try_from(request, value, index) ==
    CASE request = 0 -> Ok([kind |-> "GetStatus"])
      [] request = 1 -> Ok([kind |-> "ClearFeature"])
      [] request = 3 -> Ok([kind |-> "SetFeature"])
      [] request = 5 -> Ok([kind |-> "SetAddress"])
      [] request = 6 ->
           Wrapped("GetDescriptor", "descriptor_type", GetDescriptorType_try_from(value, index))
      [] request = 7 -> Ok([kind |-> "SetDescriptor"])
      [] request = 8 -> Ok([kind |-> "GetConfiguration"])
      [] request = 9 -> Ok([kind |-> "SetConfiguration", value |-> value])
      [] request = 10 -> Ok([kind |-> "GetInterface"])
      [] request = 11 -> Ok([kind |-> "SetInterface"])
      [] request = 12 -> Ok([kind |-> "SyncFrame"])
      [] OTHER -> Ok([kind |-> "Reserved", request |-> request, value |-> value,
                      index |-> index])

DeviceRequest_try_from(rtype, request, value, index) ==
    CASE rtype = "Reserved" ->
           Ok([kind |-> "Reserved", request |-> request, value |-> value, index |-> index])
      [] rtype = "Standard" ->
           Wrapped("Standard", "request", StandardRequest_try_from(request, value, index))
      [] OTHER -> Fail("unsupported")

ERequest_try_from(rcpt, rtype, request, value, index) ==
    CASE rcpt.kind = "Reserved" ->
           Ok([kind |-> "Unknown", recipient |-> rcpt.n, request_type |-> rtype,
               request |-> request, value |-> value, index |-> index])
      [] rcpt.kind = "Interface" ->
           Ok([kind |-> "Interface", request_type |-> rtype, request |-> request,
               value |-> value, index |-> index])
      [] rcpt.kind = "Device" ->
           Wrapped("Device", "request", DeviceRequest_try_from(rtype, request, value, index))
      [] OTHER -> Fail("not implemented")

\* Ok(Self { direction, request, length })
RequestOf(dir, request, length) ==
    IF request.ok
    THEN Ok([direction |-> dir, request |-> request.v, length |-> length])
    ELSE request

Request_try_from(from) ==
    IF Len(from) # 8 THEN Fail("Invalid Setup packet length.")
    ELSE RequestOf(direction(from[1]),
                   ERequest_try_from(recipient(from[1]), request_type(from[1]), from[2],
                                     u16_from_le_bytes(from[3], from[4]),
                                     u16_from_le_bytes(from[5], from[6])),
                   u16_from_le_bytes(from[7], from[8]))

\* RequestState
RsIdle == [kind |-> "Idle"]
RsData(request, buffer) == [kind |-> "Data", request |-> request, buffer |-> buffer]
RsStatus(request, buffer, is_early_status) ==
    [kind |-> "Status", request |-> request, buffer |-> buffer,
     is_early_status |-> is_early_status]

ControlEndpointNew == RsIdle

\* What one call of update leaves behind: the request state, the value returned
\* (None, or Some(Err(..))), and the state the loop went through on `continue`.
Returned(state, out, via) == [request_state |-> state, out |-> out, via |-> via]

CtlErr(msg) == [kind |-> "Err", msg |-> msg]

\* bail! that leaves the request state as it is
bail_keeping(self, msg) == Returned(self, CtlErr(msg), None)

\* macro bail!: request_state = Idle; return Some(Err(..))
bail(self, msg) == Returned(RsIdle, CtlErr(msg), None)

\* a NAck that is treated like a Stall
HandShake_NAck_bailing(self) == bail(self, "NAck")

HandShake_NAck(self) == Returned(self, None, None)

HandShake_Stall(self) == bail(self, "Stalled")

\* the request decoded from a Setup's payload opens the Data or the Status stage
Setup_request(self, request) ==
    IF ~request.ok THEN bail(self, request.msg)
    ELSE IF request.v.length # 0
    THEN Returned(RsData(request.v, None), None, None)
    ELSE Returned(RsStatus(request.v, None, FALSE), None, None)

\* (RequestState::Idle, TokenType::Setup)
Idle_Setup(self, transaction) ==
    IF transaction.data = None THEN bail(self, "missing device request")
    ELSE Setup_request(self, Request_try_from(transaction.data.payload))

\* (_, TokenType::Setup)
Any_Setup(self, transaction) == bail(self, "Unexpected Setup transaction")

\* a status stage that accepts any data PID
Status_InOut_any_pid(self, transaction) ==
    IF self.request.direction = "Out" /\ self.is_early_status
    THEN bail(self, "Unexpected early status")
    ELSE IF transaction.data = None
    THEN bail(self, "Missing data phase in expected status transaction")
    ELSE IF transaction.data.payload # <<>>
    THEN bail(self, "Unexpected payload is status' data phase")
    ELSE Returned(RsIdle, None, None)

\* (RequestState::Status(request, buffer, is_early_status), In | Out)
Status_InOut(self, transaction) ==
    IF self.request.direction = "Out" /\ self.is_early_status
    THEN bail(self, "Unexpected early status")
    ELSE IF transaction.data = None
    THEN bail(self, "Missing data phase in expected status transaction")
    ELSE IF transaction.data.payload # <<>>
    THEN bail(self, "Unexpected payload is status' data phase")
    ELSE IF transaction.data.pid # "Data1"
    THEN bail(self, "Invalid PID for data phase of a status transaction")
    ELSE Returned(RsIdle, None, None)

\* the data stage when the buffer is handed on only once it is full
Data_append_until_full(self, transaction) ==
    IF transaction.data = None THEN bail(self, "Empty data transaction")
    ELSE LET data == transaction.data
             capacity == self.request.length
             b == IF self.buffer = None THEN <<>> ELSE self.buffer.v
         IN IF Len(data.payload) + Len(b) > capacity
            THEN bail(self, "combined payload exceed expected size.")
            ELSE LET extended == b \o data.payload
                 IN IF Len(extended) = capacity
                    THEN Returned(RsStatus(self.request, Some(extended), FALSE), None, None)
                    ELSE Returned(RsData(self.request, Some(extended)), None, None)

\* (RequestState::Data, In | Out) with the token in the request's direction;
\* Vec::with_capacity(request.length) has capacity request.length
Data_append(self, transaction) ==
    IF transaction.data = None THEN bail(self, "Empty data transaction")
    ELSE LET data == transaction.data
             capacity == self.request.length
             b == IF self.buffer = None THEN <<>> ELSE self.buffer.v
         IN IF Len(data.payload) + Len(b) > capacity
            THEN bail(self, "combined payload exceed expected size.")
            ELSE LET is_zlp == data.payload = <<>>
                     extended == b \o data.payload
                 IN IF is_zlp \/ Len(extended) = capacity
                    THEN Returned(RsStatus(self.request, Some(extended), FALSE), None, None)
                    ELSE Returned(RsData(self.request, Some(extended)), None, None)

\* `continue`: what the next pass of the loop returns, having gone through `via`
Continued(via, again) == Returned(again.request_state, again.out, via)

\* the early status stage left for the next transaction to complete
Data_early_status_resting(self, transaction) ==
    Returned(RsStatus(self.request, self.buffer, TRUE), None,
             RsStatus(self.request, self.buffer, TRUE))

\* (DataPhaseTransferDirection::In, TokenType::Out) | (Out, In): the state becomes
\* Status(request, buffer.take(), true) and `continue` matches the same
\* transaction again, now against the Status arm
Data_early_status(self, transaction) ==
    Continued(RsStatus(self.request, self.buffer, TRUE),
              Status_InOut(RsStatus(self.request, self.buffer, TRUE), transaction))

\* (RequestState::Data(request, buffer), In | Out)
Data_InOut(self, transaction) ==
    IF self.request.direction = transaction.token.token_type
    THEN Data_append(self, transaction)
    ELSE Data_early_status(self, transaction)

\* the loop of ControlEndpoint::update
ControlEndpoint_match(self, transaction) ==
    LET tt == transaction.token.token_type
    IN CASE self.kind = "Idle" /\ tt = "Setup" -> Idle_Setup(self, transaction)
         [] self.kind # "Idle" /\ tt = "Setup" -> Any_Setup(self, transaction)
         [] self.kind = "Data" /\ tt \in {"In", "Out"} -> Data_InOut(self, transaction)
         [] self.kind = "Status" /\ tt \in {"In", "Out"} -> Status_InOut(self, transaction)
         [] OTHER -> bail(self, "while in")

ControlEndpoint_update(self, transaction) ==
    CASE transaction.handshake = "NAck" -> HandShake_NAck(self)
      [] transaction.handshake = "Stall" -> HandShake_Stall(self)
      [] transaction.handshake = "Ack" -> ControlEndpoint_match(self, transaction)
      [] OTHER -> bail(self, "Woops !")

\* the keys ControlEndpoint::update inserts into an empty endpoints map
CdCEndpoints == {1, 2, 3, 6}

NoCtlStep == [n |-> 0, transaction |-> None, before |-> RsIdle, via |-> None, out |-> None]

CtlIdle ==
    /\ request_state = ControlEndpointNew
    /\ endpoints = {}
    /\ ctlStep = NoCtlStep

----------------------------------------------------------------------------
(* SPI-Flash decoder: src/src/spif.rs *)

SpifOk(ts, cmd) == [ts |-> ts, ok |-> TRUE, v |-> cmd]
SpifErr(ts, msg) == [ts |-> ts, ok |-> FALSE, msg |-> msg]

\* PartialCommand::Read | PageProgram | ReadSFDP (ts, { addr: 0, data: [] })
Accumulating(kind, ts) == [kind |-> kind, ts |-> ts, addr |-> 0, data |-> <<>>]

\* PartialCommand::BlockErase | BlockErase32 | SectorErase (ts, 0)
Erasing(kind, ts) == [kind |-> kind, ts |-> ts, addr |-> 0]

\* Spif::new_cmd: idx = 0, then the command byte selects the partial command
\* or the value returned
new_cmd(self, ts, mosi, miso) ==
    LET started(p) == [self |-> [self EXCEPT !.idx = 0, !.partial = p], out |-> None]
        done(cmd) == [self |-> [self EXCEPT !.idx = 0],
                      out |-> SpifOk(ts, [kind |-> cmd])]
    IN CASE mosi = 2 -> started(Accumulating("PageProgram", ts))
         [] mosi = 3 -> started(Accumulating("Read", ts))
         [] mosi = 5 -> started([kind |-> "ReadStatusRegister", ts |-> ts])
         [] mosi = 6 -> done("WriteEnable")
         [] mosi = 32 -> started(Erasing("SectorErase", ts))
         [] mosi = 82 -> started(Erasing("BlockErase32", ts))
         [] mosi = 90 -> started(Accumulating("ReadSFDP", ts))
         [] mosi = 102 -> done("ResetEnable")
         [] mosi = 153 -> done("Reset")
         [] mosi = 159 -> started([kind |-> "ReadDeviceId", ts |-> ts,
                                   manufacturer |-> 0, device_id |-> 0])
         [] mosi = 216 -> started(Erasing("BlockErase", ts))
         [] OTHER -> [self |-> [self EXCEPT !.idx = 0],
                      out |-> SpifErr(ts, "Unsupported cmd")]

\* (addr << 8) | (mosi as u32); at most three shifts from 0, so no bit is lost
ShiftIn(addr, mosi) == addr * 256 + mosi

\* the address assembled with the first byte lowest
Accumulate_little_endian(self, mosi, pushed) ==
    [self |-> IF self.idx < 3
              THEN [self EXCEPT !.partial.addr = @ + mosi * Pow2(8 * self.idx),
                                !.idx = @ + 1]
              ELSE [self EXCEPT !.partial.data = Append(@, pushed)],
     out |-> None]

\* PartialCommand::Read | PageProgram | ReadSFDP: three address bytes, then data
Accumulate(self, mosi, pushed) ==
    [self |-> IF self.idx < 3
              THEN [self EXCEPT !.partial.addr = ShiftIn(@, mosi), !.idx = @ + 1]
              ELSE [self EXCEPT !.partial.data = Append(@, pushed)],
     out |-> None]

\* PartialCommand::BlockErase | BlockErase32 | SectorErase: two address bytes,
\* the third completes the command
Erase(self, mosi) ==
    IF self.idx < 2
    THEN [self |-> [self EXCEPT !.partial.addr = ShiftIn(@, mosi), !.idx = @ + 1],
          out |-> None]
    ELSE [self |-> [self EXCEPT !.partial = None],
          out |-> SpifOk(self.partial.ts,
                         [kind |-> self.partial.kind,
                          addr |-> ShiftIn(self.partial.addr, mosi)])]

\* PartialCommand::ReadDeviceId; idx is 0, 1 or 2 here
ReadDeviceId(self, miso) ==
    CASE self.idx = 0 ->
           [self |-> [self EXCEPT !.partial.manufacturer = miso, !.idx = @ + 1],
            out |-> None]
      [] self.idx = 1 ->
           [self |-> [self EXCEPT !.partial.device_id = miso * 256, !.idx = @ + 1],
            out |-> None]
      [] OTHER ->
           [self |-> [self EXCEPT !.partial = None],
            out |-> SpifOk(self.partial.ts,
                           [kind |-> "ReadDeviceId",
                            manufacturer |-> self.partial.manufacturer,
                            device_id |-> self.partial.device_id + miso])]

\* SpiEvent::Data { mosi, miso } if !self.cs
OnData(self, ts, mosi, miso) ==
    CASE self.partial = None -> new_cmd(self, ts, mosi, miso)
      [] self.partial.kind \in {"Read", "ReadSFDP"} -> Accumulate(self, mosi, miso)
      [] self.partial.kind = "PageProgram" -> Accumulate(self, mosi, mosi)
      [] self.partial.kind = "ReadStatusRegister" ->
           [self |-> [self EXCEPT !.partial = None],
            out |-> SpifOk(self.partial.ts,
                           [kind |-> "ReadStatusRegister", status |-> miso])]
      [] self.partial.kind \in {"BlockErase", "BlockErase32", "SectorErase"} ->
           Erase(self, mosi)
      [] OTHER -> ReadDeviceId(self, miso)

\* SpiEvent::ChipSelect(true): the current command is finalized
OnDeselect(self) ==
    [self |-> [self EXCEPT !.cs = TRUE, !.partial = None],
     out |-> IF self.partial # None
                /\ self.partial.kind \in {"Read", "PageProgram", "ReadSFDP"}
             THEN SpifOk(self.partial.ts,
                         [kind |-> self.partial.kind, addr |-> self.partial.addr,
                          data |-> self.partial.data])
             ELSE None]

\* Spif::update
Spif_update(self, ts, ev) ==
    CASE ev.kind = "ChipSelect" /\ ~ev.level -> [self |-> [self EXCEPT !.cs = FALSE],
                                                out |-> None]
      [] ev.kind = "ChipSelect" /\ ev.level -> OnDeselect(self)
      [] ev.kind = "Data" /\ ~self.cs -> OnData(self, ts, ev.mosi, ev.miso)
      [] OTHER -> [self |-> self, out |-> SpifErr(ts, "Ignoring event")]

\* Spif::new
SpifNew == [cs |-> FALSE, idx |-> 0, partial |-> None]

NoSpifStep == [n |-> 0, ev |-> None, before |-> SpifNew, out |-> None]

\* line: the level of the last ChipSelect pulled; opened: chip select was
\* asserted by a ChipSelect(false) and not released since; outs: the events
\* Spif::update returned since it was asserted; since: the data words handled from the last
\* word given to new_cmd on (the command byte first), with their times
SpifWinNew == [line |-> "None", opened |-> FALSE, outs |-> 0, since |-> <<>>]

SpifIdle ==
    /\ cs = SpifNew.cs
    /\ idx = SpifNew.idx
    /\ partial = SpifNew.partial
    /\ spifStep = NoSpifStep
    /\ spifWin = SpifWinNew

----------------------------------------------------------------------------
(* VCD source: src/src/source/vcd.rs.  One tick is 0.1 s, the timescale unit *)
(* is the second.                                                            *)

VcdSecond == 10
PreTrigger == 1            \* 0.1 s, the pre-trigger buffer size

\* VcdParser::new
VcdParserNew ==
    [factor |-> VcdSecond, first_ts |-> -PreTrigger, current_ts |-> -PreTrigger,
     vars |-> <<>>, state |-> 0, stopped |-> FALSE, panic |-> FALSE]

VcdOk(ts, state) == [ts |-> ts, kind |-> "Sample", v |-> state]
VcdErr(ts, msg) == [ts |-> ts, kind |-> "Err", v |-> msg]

\* what one command leaves behind: out is None when the loop goes on to the
\* next command
VcdPass(self, out) == [self |-> self, out |-> out]

\* Command::Timescale(n, TimescaleUnit::S)
OnTimescale(self, n) == VcdPass([self EXCEPT !.factor = n * VcdSecond], None)

\* the time of a Timestamp command, shifted to the first one and the pre-trigger
Shifted(self, new_ts) ==
    new_ts - (IF self.first_ts = -PreTrigger THEN new_ts ELSE self.first_ts) - PreTrigger

\* a Timestamp that is taken as it comes
OnTimestamp_unchecked(self, ts) ==
    VcdPass([self EXCEPT !.first_ts = IF @ = -PreTrigger THEN ts * self.factor ELSE @,
                         !.current_ts = Shifted(self, ts * self.factor)], None)

\* Command::Timestamp(ts); (first_ts + 0.1).abs() < f64::EPSILON holds exactly
\* while first_ts is still -0.1
OnTimestamp(self, ts) ==
    IF self.current_ts > Shifted(self, ts * self.factor)
    THEN VcdPass([self EXCEPT !.first_ts = IF @ = -PreTrigger THEN ts * self.factor ELSE @,
                              !.stopped = TRUE],
                 VcdErr(self.current_ts, "Timestamp must be monotonic"))
    ELSE VcdPass([self EXCEPT !.first_ts = IF @ = -PreTrigger THEN ts * self.factor ELSE @,
                              !.current_ts = Shifted(self, ts * self.factor)], None)

\* self.state &= !(1 << shift); self.state |= v << shift
SetBit(state, shift, v) ==
    state - BitOp("and", state, Pow2(shift), 8) + v * Pow2(shift)

\* Value::V0 => 0, Value::V1 => 1
ScalarBit(value) == IF value = "V1" THEN 1 ELSE 0

\* Command::ChangeScalar(id, v); self.vars[&id] panics for an id no VarDef gave
OnChangeScalar(self, id, value) ==
    IF value \notin {"V0", "V1"}
    THEN VcdPass([self EXCEPT !.stopped = TRUE],
                 VcdErr(self.current_ts, "Unsupported value"))
    ELSE IF id \notin DOMAIN self.vars
    THEN VcdPass([self EXCEPT !.panic = TRUE], None)
    ELSE VcdPass([self EXCEPT !.state = SetBit(@, self.vars[id], ScalarBit(value))],
                 VcdOk(self.current_ts,
                       SetBit(self.state, self.vars[id], ScalarBit(value))))

\* Command::VarDef(ty, _sz, id, name); name is given as its fields between
\* '_': name.split('_').nth(1).unwrap().parse::<usize>().unwrap() panics when
\* there is no second field or it is no number
OnVarDef(self, ty, id, name) ==
    IF ty # "Wire" THEN VcdPass(self, VcdErr(self.current_ts, "Unsupported VarType"))
    ELSE IF Len(name) < 2 \/ name[2] \notin Nat
    THEN VcdPass([self EXCEPT !.panic = TRUE], None)
    ELSE VcdPass([self EXCEPT !.vars = (id :> name[2]) @@ @], None)

\* one command of the loop in VcdParser::next
OnCommand(self, cmd) ==
    CASE cmd.kind = "Timescale" -> OnTimescale(self, cmd.n)
      [] cmd.kind = "Timestamp" -> OnTimestamp(self, cmd.ts)
      [] cmd.kind = "ChangeScalar" -> OnChangeScalar(self, cmd.id, cmd.v)
      [] cmd.kind = "VarDef" -> OnVarDef(self, cmd.ty, cmd.id, cmd.name)
      [] cmd.kind = "Err" -> VcdPass(self, VcdErr(self.current_ts, "parse error"))
      [] OTHER -> VcdPass(self, None)

\* last: the time (ts * factor) of the last Timestamp command read, prev: the
\* one before this step
NoVcdStep ==
    [n |-> 0, cmd |-> None, before |-> VcdParserNew, out |-> None, last |-> -1,
     prev |-> -1]

VcdIdle ==
    /\ vcd = VcdParserNew
    /\ vcdStep = NoVcdStep
    /\ vcdOut = <<>>

----------------------------------------------------------------------------
(* Multi-file digital source: src/src/source/logic2.rs.  One tick is a third *)
(* of a nanosecond.                                                          *)

Nanosecond == 3            \* 0.000_000_001 s

ChannelIds == {0, 1}

RECURSIVE Ascending(_)
\* the transition times of a channel file, as the file lists them
Ascending(times) ==
    IF times = {} THEN <<>>
    ELSE <<CHOOSE t \in times : \A u \in times : t <= u>>
         \o Ascending(times \ {CHOOSE t \in times : \A u \in times : t <= u})

RECURSIVE Tagged(_, _)
\* transitions.into_iter().map(move |ts| (id, ts))
Tagged(id, transitions) ==
    IF transitions = <<>> THEN <<>>
    ELSE <<[id |-> id, ts |-> Head(transitions)]>> \o Tagged(id, Tail(transitions))

RECURSIVE kmerge_by(_, _, _)
\* kmerge_by(|(_, a_ts), (_, b_ts)| a_ts < b_ts) of two channels; first[t] is
\* the channel the merge yields first when both have a transition at t
kmerge_by(a, b, first) ==
    IF a = <<>> THEN b
    ELSE IF b = <<>> THEN a
    ELSE IF a[1].ts < b[1].ts \/ (a[1].ts = b[1].ts /\ first[a[1].ts] = a[1].id)
    THEN <<a[1]>> \o kmerge_by(Tail(a), b, first)
    ELSE <<b[1]>> \o kmerge_by(a, Tail(b), first)

\* the fold over the channels: acc | (if c.initial_state { 1 << c.id } else { 0 })
InitialState(chans) ==
    BitOp("or", IF chans[0].initial_state THEN Pow2(0) ELSE 0,
          IF chans[1].initial_state THEN Pow2(1) ELSE 0, 8)

RECURSIVE peeking_take_while(_, _, _)
\* the closure given to peeking_take_while: new_ts is the time of the first
\* transition it saw; it stops at a channel already in mask and at a
\* transition 1 ns or more later
peeking_take_while(iter, mask, new_ts) ==
    IF iter = <<>> THEN [it |-> iter, mask |-> mask, new_ts |-> new_ts]
    ELSE IF BitOp("and", mask, Pow2(iter[1].id), 8) # Pow2(iter[1].id)
            /\ iter[1].ts - (IF new_ts = None THEN iter[1].ts ELSE new_ts.v) < Nanosecond
    THEN peeking_take_while(Tail(iter), BitOp("or", mask, Pow2(iter[1].id), 8),
                            IF new_ts = None THEN Some(iter[1].ts) ELSE new_ts)
    ELSE [it |-> iter, mask |-> mask,
          new_ts |-> IF new_ts = None THEN Some(iter[1].ts) ELSE new_ts]

\* new_ts.map(|ts| { current_ts = ts; current_state ^= mask; (ts, current_state) })
Batched(self, b) ==
    [transitions |-> b.it, current_ts |-> b.new_ts.v,
     current_state |-> BitOp("xor", self.current_state, b.mask, 8)]

\* one call of the closure given to batching
batching(self) == Batched(self, peeking_take_while(self.transitions, 0, None))

\* new_parser: the closure's state over the merged transitions
new_parser(chans, first) ==
    [transitions |-> kmerge_by(Tagged(0, Ascending(chans[0].transitions)),
                               Tagged(1, Ascending(chans[1].transitions)), first),
     current_state |-> InitialState(chans),
     current_ts |-> CHOOSE t \in chans[0].transitions \cup chans[1].transitions :
                       \A u \in chans[0].transitions \cup chans[1].transitions : t <= u]

Logic2Idle ==
    /\ channels = [files |-> [id \in ChannelIds |->
                                 [initial_state |-> FALSE,
                                  transitions |-> IF id = 0 THEN {0} ELSE {}]],
                   first |-> <<>>]
    /\ logic2 = new_parser(channels.files, channels.first)
    /\ logic2Step = None
    /\ logic2Out = <<>>

----------------------------------------------------------------------------
(* Binary single-channel source: src/src/source/logic.rs, and the parser of *)
(* src/src/input/logicdata.rs.  A record is a little-endian i64 count of    *)
(* samples and one byte of channel levels; one tick is half a second.       *)

RECURSIVE i64_from_le_bytes(_)
\* i64::from_le_bytes, for counts that are not negative
i64_from_le_bytes(bytes) ==
    IF bytes = <<>> THEN 0 ELSE Head(bytes) + 256 * i64_from_le_bytes(Tail(bytes))

\* (ts as f64) / freq, in ticks
PerFreq(ts, freq) == (2 * ts) \div freq

LogicDataParserNew(input, freq) ==
    [input |-> input, freq |-> IF freq = 0 THEN 1 ELSE freq, current_ts |-> 0,
     stopped |-> FALSE]

LogicSample(ts, level) == [kind |-> "Sample", ts |-> ts, v |-> level]
LogicErr(ts) == [kind |-> "Err", ts |-> ts, v |-> "failed to fill whole buffer"]

\* source::logic::LogicDataParser::next; read_exact takes what is left of the
\* file when it fails
LogicDataParser_next(self) ==
    IF self.stopped THEN [self |-> self, out |-> EndOfStream]
    ELSE IF Len(self.input) < 9
    THEN [self |-> [self EXCEPT !.input = <<>>], out |-> LogicErr(self.current_ts)]
    ELSE [self |-> [self EXCEPT
                      !.input = SubSeq(@, 10, Len(@)),
                      !.current_ts = PerFreq(i64_from_le_bytes(SubSeq(self.input, 1, 8)),
                                             self.freq)],
          out |-> LogicSample(PerFreq(i64_from_le_bytes(SubSeq(self.input, 1, 8)),
                                      self.freq), self.input[9])]

\* input::logicdata::LogicDataParser::next; parse_sample takes an i64 and a
\* u8 from nine bytes and cannot fail
logicdata_next(self) ==
    IF Len(self.input) < 9
    THEN [self |-> [self EXCEPT !.input = <<>>], out |-> EndOfStream]
    ELSE [self |-> [self EXCEPT
                      !.input = SubSeq(@, 10, Len(@)),
                      !.current_ts = PerFreq(i64_from_le_bytes(SubSeq(self.input, 1, 8)),
                                             self.freq)],
          out |-> LogicSample(PerFreq(i64_from_le_bytes(SubSeq(self.input, 1, 8)),
                                      self.freq), self.input[9])]

NoLogicStep == [n |-> 0, of |-> "None", before |-> <<>>, out |-> None]

LogicIdle ==
    /\ logic = LogicDataParserNew(<<>>, 1)
    /\ logicdata = [input |-> <<>>, freq |-> 1, current_ts |-> 0]
    /\ logicStep = NoLogicStep
    /\ logicOut = <<>>
    /\ logicdataOut = <<>>

----------------------------------------------------------------------------
(* Stage builders: build of src/src/usb/signal.rs, byte.rs, packet.rs,     *)
(* protocol.rs and device.rs.  A stage of the stack is the type its        *)
(* event_type reports, the type its next downcasts the events of its input *)
(* to, and the stage it took as its input.                                 *)

Stage(event_type, downcast, input) ==
    [event_type |-> event_type, downcast |-> downcast, it |-> input]

\* pipeline.last()
Top(p) == p[Len(p)]

Built(p) == [pipeline |-> p, panic |-> None]
Panicked(p, msg) == [pipeline |-> p, panic |-> Some(msg)]

\* match pipeline.pop() of a builder, once its prerequisite r is there
Pushed_on(r, event_type, downcast, msg) ==
    IF r.panic # None THEN r
    ELSE IF r.pipeline = <<>> THEN Panicked(r.pipeline, <<msg>>)
    ELSE Built(Append(SubSeq(r.pipeline, 1, Len(r.pipeline) - 1),
                      Stage(event_type, downcast, Top(r.pipeline))))

\* usb::signal::build
signal_build(p) ==
    IF p # <<>> /\ Top(p).event_type # "Sample"
    THEN Panicked(p, <<"Invalid input type. Exected {} but got {}", "Sample",
                       Top(p).event_type>>)
    ELSE Pushed_on(Built(p), "Signal", "Sample", "Missing source for usb::signal's parser")

\* a usb::byte builder that takes whatever is on top
byte_build_any_top(p) ==
    Pushed_on(Built(p), "Byte", "Signal", "Missing source for usb::device's parser")

\* usb::byte::build
byte_build(p) ==
    Pushed_on(IF p # <<>> /\ Top(p).event_type # "Signal" THEN signal_build(p)
              ELSE Built(p),
              "Byte", "Signal", "Missing source for usb::device's parser")

\* usb::packet::build
packet_build(p) ==
    Pushed_on(IF p # <<>> /\ Top(p).event_type # "Byte" THEN byte_build(p)
              ELSE Built(p),
              "Packet", "Byte", "Missing source for usb::protocol's parser")

\* usb::protocol::build
protocol_build(p) ==
    Pushed_on(IF p # <<>> /\ Top(p).event_type # "Packet" THEN packet_build(p)
              ELSE Built(p),
              "protocol::Event", "Packet", "Missing source for usb::protocol's parser")

\* usb::device::build
device_build(p) ==
    Pushed_on(IF p # <<>> /\ Top(p).event_type # "protocol::Event"
              THEN protocol_build(p) ELSE Built(p),
              "DeviceEvent", "protocol::Event", "Missing source for usb::device's parser")

NoBuildStep == [n |-> 0, builder |-> "None", before |-> <<>>, panic |-> None]

BuildIdle ==
    /\ pipeline = <<>>
    /\ buildStep = NoBuildStep

----------------------------------------------------------------------------
(* File header of a Logic 2 export: parse_common_header of                  *)
(* src/src/source/logic2.rs and src/src/input/logic2.rs                      *)

\* b"<SALEAE>"
SALEAE == <<60, 83, 65, 76, 69, 65, 69, 62>>

\* u32::from_be_bytes
u32_from_be_bytes(bytes) ==
    bytes[4] + 256 * bytes[3] + 65536 * bytes[2] + 16777216 * bytes[1]

\* u32::from_le_bytes
u32_from_le_bytes(bytes) ==
    bytes[1] + 256 * bytes[2] + 65536 * bytes[3] + 16777216 * bytes[4]

\* buf.starts_with(needle)
starts_with(buffer, needle) ==
    Len(buffer) >= Len(needle) /\ SubSeq(buffer, 1, Len(needle)) = needle

parse_common_header(buffer) ==
    IF Len(buffer) # 16 THEN Fail("Incomplete file header")
    ELSE IF ~starts_with(buffer, SALEAE) THEN Fail("Invalid prefix")
    ELSE Ok(<<u32_from_le_bytes(SubSeq(buffer, 9, 12)),
              u32_from_le_bytes(SubSeq(buffer, 13, 16))>>)

HeaderIdle ==
    /\ header = <<>>
    /\ parsed = None

----------------------------------------------------------------------------
(* USB descriptors: src/src/usb/device/types.rs, cdc.rs, msd.rs *)

INTERFACE_DESCRIPTOR == 4
ENDPOINT_DESCRIPTOR == 5

\* &slice[n..]; the caller has checked n <= Len(slice)
From(slice, n) == SubSeq(slice, n + 1, Len(slice))

\* &slice[..n]; the caller has checked n <= Len(slice)
Upto(slice, n) == SubSeq(slice, 1, n)

SyncTypes == <<"NoSynchronization", "Asynchronous", "Adaptive", "Synchronous">>
UsageTypes == <<"DataEndpoint", "FeedbackEndpoint", "ImplicitFeedbackDataEndpoint",
                "Reserved">>

Transfer(type, sync_type, usage_type) ==
    Ok([type |-> type, sync_type |-> sync_type, usage_type |-> usage_type])

\* the test on the reserved bits made on the attributes byte itself
TransferType_try_from_checked(value) ==
    IF BitOp("and", value, 3, 8) = 1
    THEN Transfer("Isochronous", SyncTypes[Shr(BitOp("and", value, 12, 8), 2) + 1],
                  UsageTypes[Shr(BitOp("and", value, 48, 8), 4) + 1])
    ELSE IF BitOp("and", value, 252, 8) # 0 THEN Fail("Invalid reserved bits")
    ELSE Transfer(CASE BitOp("and", value, 3, 8) = 0 -> "Control"
                    [] BitOp("and", value, 3, 8) = 2 -> "Bulk"
                    [] OTHER -> "Interrupt", "None", "None")

\* impl TryFrom<u8> for TransferType: the reserved bits are tested on
\* transfer_type, which is value & 0x03 already
TransferType_try_from(value) ==
    LET transfer_type == BitOp("and", value, 3, 8) IN
    IF transfer_type = 1
    THEN Transfer("Isochronous", SyncTypes[Shr(BitOp("and", value, 12, 8), 2) + 1],
                  UsageTypes[Shr(BitOp("and", value, 48, 8), 4) + 1])
    ELSE IF BitOp("and", transfer_type, 252, 8) # 0 THEN Fail("Invalid reserved bits")
    ELSE Transfer(CASE transfer_type = 0 -> "Control"
                    [] transfer_type = 2 -> "Bulk"
                    [] OTHER -> "Interrupt", "None", "None")

\* impl TryFrom<[u8; 7]> for EndpointDescriptor; the result is that of the
\* attributes byte when every other field is accepted
EndpointDescriptor_try_from(desc) ==
    IF desc[2] # 5 THEN Fail("Invalid descriptor type")
    ELSE IF desc[1] # 7 THEN Fail("Invalid descriptor length")
    ELSE IF BitOp("and", desc[3], 112, 8) # 0 THEN Fail("Invalid reserved bit value")
    ELSE TransferType_try_from(desc[4])

\* impl TryFrom<(u8, u8, u8)> for InterfaceClass
InterfaceClass_try_from(class) ==
    CASE class = 2 -> Ok("CommunicationDevice")
      [] class = 8 -> Ok("MassStorageDevice")
      [] class = 10 -> Ok("CDCData")
      [] class = 255 -> Ok("VendorSpecific")
      [] OTHER -> Fail("Unsupported interface class")

Next_(next) == [kind |-> "Ok", next |-> next]
DescErr(msg) == [kind |-> "Err", msg |-> msg]
DescPanic(msg) == [kind |-> "Panic", msg |-> msg]

\* cdc::ClassSpecificDescriptor::parse: the slices are taken before the type
\* is matched
cdc_parse(resp) ==
    IF Len(resp) < 2 THEN DescErr("Truncated descriptor")
    ELSE IF resp[1] > Len(resp) THEN DescPanic("range end index out of range")
    ELSE IF resp[2] \in {36, 37} THEN Next_(From(resp, resp[1]))
    ELSE DescErr("Invalid endpoint type for CDC specific interface class")

\* msd::ClassSpecificDescriptor::parse returns &response[..response[0]]
msd_parse(resp) ==
    IF resp = <<>> THEN DescPanic("index out of bounds")
    ELSE IF resp[1] > Len(resp) THEN DescPanic("range end index out of range")
    ELSE Next_(Upto(resp, resp[1]))

\* InterfaceClass::parse_descriptor
parse_descriptor(class, descriptor) ==
    CASE class = "CommunicationDevice" -> cdc_parse(descriptor)
      [] class = "MassStorageDevice" -> msd_parse(descriptor)
      [] OTHER -> DescErr("Class specific descriptor not implemented")

NoIfaceStep == [kind |-> "None", before |-> <<>>, transfer |-> Fail("")]

DescIdle ==
    /\ response = <<>>
    /\ read_ptr = <<>>
    /\ iface = [pc |-> "idle", class |-> "", num_endpoints |-> 0, consumed |-> 0,
                result |-> "", msg |-> ""]
    /\ ifaceStep = NoIfaceStep

----------------------------------------------------------------------------
(* USB device stage: src/src/usb/device.rs, src/src/usb/device/cdc.rs *)

\* impl Endpoint for CdCEndpoint
CdCEndpoint_update(transaction) ==
    IF transaction.data = None THEN None
    ELSE IF transaction.handshake = "Ack"
    THEN [kind |-> IF transaction.token.token_type = "In" THEN "Rx" ELSE "Tx",
          payload |-> transaction.data.payload]
    ELSE None

DevErr(msg) == [kind |-> "Err", msg |-> msg]

\* endpoints.get_mut(&endpt).map(..).unwrap_or_else(..)
Endpoint_update(map, transaction) ==
    IF transaction.token.endpoint \in map
    THEN CdCEndpoint_update(transaction)
    ELSE DevErr("Invalid endpoint")

\* Event::Reset => break (ts, Ok(DeviceEvent::Reset)): self.control is not touched
DeviceReset(self) == self

NoDevStep ==
    [n |-> 0, prev |-> "None", event |-> None, before |-> RsIdle, known |-> {},
     out |-> None, ts |-> 0]

DevIdle == devStep = NoDevStep

----------------------------------------------------------------------------
(* WizFi310 decoder: src/src/wizfi310.rs.  A String is the sequence of its *)
(* characters; "CR" and "LF" stand for '\r' and '\n'.                      *)

\* usize::MAX, cut to 31 bits
MaxUsize == 2147483647

Digits == <<"0", "1", "2", "3", "4", "5", "6", "7", "8", "9">>

IsDigit(c) == \E i \in 1 .. 10 : Digits[i] = c

DigitOf(c) == (CHOOSE i \in 1 .. 10 : Digits[i] = c) - 1

RECURSIVE Decimal(_, _)
Decimal(acc, s) == IF s = <<>> THEN acc ELSE Decimal(10 * acc + DigitOf(Head(s)), Tail(s))

\* str::parse::<u8 | u16 | usize>() of an Option<&str>, then .ok(): the
\* number, or None for no string, an empty one, a character that is no digit
\* or a value above max
parse(s, max) ==
    IF s = None THEN None
    ELSE IF s.v = <<>> \/ (\E i \in 1 .. Len(s.v) : ~IsDigit(s.v[i])) THEN None
    ELSE IF Decimal(0, s.v) > max THEN None
    ELSE Some(Decimal(0, s.v))

\* str::split(sep), collected
RECURSIVE split(_, _)
split(s, sep) ==
    IF \A i \in 1 .. Len(s) : s[i] # sep THEN <<s>>
    ELSE LET at == CHOOSE i \in 1 .. Len(s) : s[i] = sep /\ \A j \in 1 .. i - 1 : s[j] # sep
         IN <<SubSeq(s, 1, at - 1)>> \o split(SubSeq(s, at + 1, Len(s)), sep)

\* hsplit.next() for the n-th call
nth(parts, n) == IF n <= Len(parts) THEN Some(parts[n]) ELSE None

\* parse::<Ipv4Addr>(): four decimal octets separated by dots
parse_ip(s) ==
    IF s = None THEN None
    ELSE IF Len(split(s.v, ".")) # 4 THEN None
    ELSE IF \E i \in 1 .. 4 : parse(Some(split(s.v, ".")[i]), 255) = None THEN None
    ELSE Some([i \in 1 .. 4 |-> parse(Some(split(s.v, ".")[i]), 255).v])

\* chars().skip(n).take(m)
skip_take(s, n, m) == SubSeq(s, n + 1, IF n + m < Len(s) THEN n + m ELSE Len(s))

ends_with(s, needle) ==
    Len(s) >= Len(needle) /\ SubSeq(s, Len(s) - Len(needle) + 1, Len(s)) = needle

Wizfi310New ==
    [data_to_send |-> 0, data_to_receive |-> 0, recv_header |-> None, tx |-> <<>>,
     rx |-> <<>>]

WizOut(self, out) == [self |-> self, out |-> out]
WizPanic(self) == WizOut(self, [kind |-> "Panic"])

\* SerialEvent::Tx(c)
Wiz_Tx(self, c) ==
    LET txs == Append(self.tx, c) IN
    IF self.data_to_send # 0
    THEN IF self.data_to_send = Len(txs)
         THEN WizOut([self EXCEPT !.data_to_send = 0, !.tx = <<>>],
                     [kind |-> "Sent", v |-> txs])
         ELSE WizOut([self EXCEPT !.tx = txs], None)
    ELSE IF c = "CR"
    THEN WizOut([self EXCEPT !.tx = <<>>], [kind |-> "Command", v |-> txs])
    ELSE WizOut([self EXCEPT !.tx = txs], None)

\* the line "[..,n]\r\n" announces n bytes to send
Wiz_Resp(self, rxs) ==
    IF starts_with(rxs, <<"[">>) /\ ends_with(rxs, <<"]", "CR", "LF">>)
       /\ (\E i \in 1 .. Len(rxs) : rxs[i] = ",")
    THEN LET line == skip_take(rxs, 1, Len(rxs) - 4)
             last == parse(Some(split(line, ",")[Len(split(line, ","))]), MaxUsize)
         IN IF last = None THEN WizPanic([self EXCEPT !.rx = rxs])
            ELSE WizOut([self EXCEPT !.data_to_send = last.v, !.rx = <<>>],
                        [kind |-> "Resp", v |-> rxs])
    ELSE WizOut([self EXCEPT !.rx = <<>>], [kind |-> "Resp", v |-> rxs])

\* "{socket,ip,port,length}" announces `length` bytes to receive
Wiz_Header(self, rxs) ==
    IF Len(rxs) < 2 THEN WizPanic([self EXCEPT !.rx = rxs])
    ELSE LET hsplit == split(skip_take(rxs, 1, Len(rxs) - 2), ",")
             socket_id == parse(nth(hsplit, 1), 255)
             ip == parse_ip(nth(hsplit, 2))
             port == parse(nth(hsplit, 3), 65535)
             length == parse(nth(hsplit, 4), MaxUsize)
         IN IF socket_id = None \/ ip = None \/ port = None \/ length = None
            THEN WizPanic([self EXCEPT !.rx = rxs])
            ELSE WizOut([self EXCEPT !.data_to_receive = length.v,
                                     !.recv_header = Some([socket_id |-> socket_id.v,
                                                           ip |-> ip.v, port |-> port.v]),
                                     !.rx = <<>>], None)

\* SerialEvent::Rx(c)
Wiz_Rx(self, c) ==
    LET rxs == Append(self.rx, c) IN
    IF self.data_to_receive # 0
    THEN IF self.data_to_receive = Len(rxs)
         THEN IF self.recv_header = None THEN WizPanic([self EXCEPT !.rx = rxs])
              ELSE WizOut([self EXCEPT !.data_to_receive = 0, !.recv_header = None,
                                       !.rx = <<>>],
                          [kind |-> "Recv", header |-> self.recv_header.v, v |-> rxs])
         ELSE WizOut([self EXCEPT !.rx = rxs], None)
    ELSE IF c = "LF" THEN Wiz_Resp(self, rxs)
    ELSE IF c = "}" THEN Wiz_Header(self, rxs)
    ELSE WizOut([self EXCEPT !.rx = rxs], None)

\* one pass of the loop of Wizfi310::next on a serial event
Wiz_update(self, ev) ==
    CASE ev.kind = "Tx" -> Wiz_Tx(self, ev.c)
      [] ev.kind = "Rx" -> Wiz_Rx(self, ev.c)
      [] OTHER -> WizOut(self, None)

\* an upstream error answered by an error of the decoder itself
Wiz_Err_replaced(self, ts, e) ==
    WizOut(self, [kind |-> "Err", ts |-> ts, msg |-> "Unexpected serial error"])

\* (ts, Err(e)) => return Some((ts, Err(e)))
Wiz_Err(self, ts, e) == WizOut(self, [kind |-> "Err", ts |-> ts, msg |-> e])

NoWizStep == [n |-> 0, script |-> <<>>, at |-> 0, ev |-> None, out |-> None, ts |-> 0]

WizIdle ==
    /\ wiz = Wizfi310New
    /\ wizStep = NoWizStep

----------------------------------------------------------------------------
(* The signal stage as the byte decoder's upstream, and ByteIterator::next *)

SignalIteratorNew ==
    [n |-> 0, ts |-> 0, current_signal |-> "None", last |-> "None", errs |-> 0]

\* ByteIterator::next is about to pull an item from its upstream
ByteNeeds ==
    /\ byteIt.panic = "none"
    /\ byteIt.ev_queue = <<>>
    /\ ~it_done
    /\ IF it = <<>> THEN TRUE
       ELSE /\ Head(it).sig # "Err"
            /\ Coalesce(Head(it).sig, Tail(it), FALSE, <<>>).status = "more"

\* SignalIterator::next yields a signal change or passes an error through
SignalNext ==
    /\ ByteNeeds
    /\ sig.n < MaxSignals
    /\ \E s \in (Signal \ {sig.current_signal}) \cup {"Err"} :
       \E gap \in (IF sig.n = 0 THEN {0} ELSE Gaps(sig.last)) :
          /\ sig' = [n |-> sig.n + 1, ts |-> sig.ts + gap,
                     current_signal |-> IF s = "Err" THEN sig.current_signal ELSE s,
                     last |-> s,
                     errs |-> sig.errs + (IF s = "Err" THEN 1 ELSE 0)]
          /\ it' = Append(it, [ts |-> sig.ts + gap, sig |-> s])
    /\ UNCHANGED <<overflow_checks, it_done, byteIt, byteStep, byteOut, sent>>
    /\ UNCHANGED <<protoVars, pktVars, serVars, crcVars, ctlVars, spifVars, vcdVars, logic2Vars, logicVars, buildVars, headerVars, descVars, devVars, wizVars>>

\* the upstream is exhausted: PeekNth's fused iterator returns None from now on
SignalEnd ==
    /\ ByteNeeds
    /\ it_done' = TRUE
    /\ UNCHANGED <<overflow_checks, sig, it, byteIt, byteStep, byteOut, sent>>
    /\ UNCHANGED <<protoVars, pktVars, serVars, crcVars, ctlVars, spifVars, vcdVars, logic2Vars, logicVars, buildVars, headerVars, descVars, devVars, wizVars>>

\* one pass of the loop body of ByteIterator::next on an Ok signal
ByteStep ==
    /\ byteIt.panic = "none"
    /\ byteIt.ev_queue = <<>>
    /\ it # <<>>
    /\ Head(it).sig # "Err"
    /\ LET t0 == Head(it).ts
           sig0 == Head(it).sig
           c == Coalesce(sig0, Tail(it), it_done, <<>>)
           next_ts == c.next_ts
           ulen == Round(next_ts - t0)
           len == next_ts - t0
           s1 == EmitByte(Dispatch(byteIt, sig0, t0, ulen, len), next_ts)
       IN /\ c.status = "ok"
          /\ it' = c.rest
          /\ byteIt' = s1
          /\ byteStep' = [n |-> byteStep.n + 1, sig0 |-> sig0, t0 |-> t0,
                          next_ts |-> next_ts, ulen |-> ulen,
                          before |-> byteIt.state, dropped |-> c.dropped,
                          head |-> IF c.rest = <<>> THEN "None" ELSE c.rest[1].sig,
                          head_ts |-> IF c.rest = <<>> THEN 0 ELSE c.rest[1].ts,
                          pushed |-> s1.ev_queue]
    /\ UNCHANGED <<overflow_checks, sig, it_done, byteOut, sent>>
    /\ UNCHANGED <<protoVars, pktVars, serVars, crcVars, ctlVars, spifVars, vcdVars, logic2Vars, logicVars, buildVars, headerVars, descVars, devVars, wizVars>>

\* an upstream error is returned at once (byte.rs:72)
ByteError ==
    /\ byteIt.panic = "none"
    /\ byteIt.ev_queue = <<>>
    /\ it # <<>>
    /\ Head(it).sig = "Err"
    /\ byteOut' = Append(byteOut, EvErr(Head(it).ts, "upstream"))
    /\ it' = Tail(it)
    /\ UNCHANGED <<overflow_checks, sig, it_done, byteIt, byteStep, sent>>
    /\ UNCHANGED <<protoVars, pktVars, serVars, crcVars, ctlVars, spifVars, vcdVars, logic2Vars, logicVars, buildVars, headerVars, descVars, devVars, wizVars>>

\* ev_queue.pop_front() is returned (byte.rs:194)
BytePop ==
    /\ byteIt.panic = "none"
    /\ byteIt.ev_queue # <<>>
    /\ byteOut' = Append(byteOut, Head(byteIt.ev_queue))
    /\ byteIt' = [byteIt EXCEPT !.ev_queue = Tail(byteIt.ev_queue)]
    /\ UNCHANGED <<overflow_checks, sig, it, it_done, byteStep, sent>>
    /\ UNCHANGED <<protoVars, pktVars, serVars, crcVars, ctlVars, spifVars, vcdVars, logic2Vars, logicVars, buildVars, headerVars, descVars, devVars, wizVars>>

ByteIdle ==
    /\ overflow_checks = TRUE
    /\ sig = SignalIteratorNew
    /\ it = <<>>
    /\ it_done = FALSE
    /\ byteIt = ByteIteratorNew
    /\ byteStep = NoStep
    /\ byteOut = <<>>
    /\ sent = <<>>

InitByte ==
    /\ overflow_checks \in BOOLEAN
    /\ sig = SignalIteratorNew
    /\ it = <<>>
    /\ it_done = FALSE
    /\ byteIt = ByteIteratorNew
    /\ byteStep = NoStep
    /\ byteOut = <<>>
    /\ sent = <<>>
    /\ ProtoIdle
    /\ PktIdle
    /\ SerIdle
    /\ CrcIdle
    /\ CtlIdle
    /\ SpifIdle
    /\ VcdIdle
    /\ Logic2Idle
    /\ LogicIdle
    /\ BuildIdle
    /\ HeaderIdle
    /\ DescIdle
    /\ DevIdle
    /\ WizIdle

NextByte == SignalNext \/ SignalEnd \/ ByteStep \/ ByteError \/ BytePop

SpecByte == InitByte /\ [][NextByte]_vars

----------------------------------------------------------------------------
(* A transmitter for the byte decoder: bytes, LSB first, a zero stuffed after *)
(* six consecutive ones, NRZI (a zero toggles the line, a one holds it).      *)

MaxBytes == 2
ByteVals == {0, 1, 63, 85, 126, 128, 170, 252, 254, 255}

RECURSIVE SeqsUpTo(_, _)
SeqsUpTo(S, n) ==
    IF n = 0 THEN {<<>>}
    ELSE LET shorter == SeqsUpTo(S, n - 1)
         IN shorter \cup {Append(q, x) : q \in {r \in shorter : Len(r) = n - 1}, x \in S}

BitsOfByte(b) == [i \in 1..8 |-> Shr(b, i - 1) % 2]

RECURSIVE BitsOf(_)
BitsOf(bytes) ==
    IF bytes = <<>> THEN <<>> ELSE BitsOfByte(Head(bytes)) \o BitsOf(Tail(bytes))

RECURSIVE Stuff(_, _)
Stuff(bits, ones) ==
    IF bits = <<>> THEN <<>>
    ELSE IF Head(bits) = 0 THEN <<0>> \o Stuff(Tail(bits), 0)
    ELSE IF ones = 5 THEN <<1, 0>> \o Stuff(Tail(bits), 0)
    ELSE <<1>> \o Stuff(Tail(bits), ones + 1)

\* lengths (in bits) of the line periods: the first is how long the idle J is
\* held by leading ones, every further one starts with a toggle
RECURSIVE Periods(_, _)
Periods(bits, acc) ==
    IF bits = <<>> THEN acc
    ELSE IF Head(bits) = 1
    THEN Periods(Tail(bits), [acc EXCEPT ![Len(acc)] = acc[Len(acc)] + 1])
    ELSE Periods(Tail(bits), Append(acc, 1))

RECURSIVE Line(_, _, _)
Line(periods, ts, level) ==
    IF periods = <<>> THEN <<[ts |-> ts, sig |-> "SE0"], [ts |-> ts + 2 * BitLen, sig |-> "J"]>>
    ELSE <<[ts |-> ts, sig |-> level]>>
         \o Line(Tail(periods), ts + Head(periods) * BitLen, IF level = "J" THEN "K" ELSE "J")

\* the idle J (one bit time before the first data bit), the data periods, an SE0
\* of two bit times, the closing J and, with `tail`, a K three bit times later
Encode(bytes, tail) ==
    LET l == Line(Periods(Stuff(BitsOf(bytes), 0), <<1>>), 0, "J")
    IN IF tail THEN Append(l, [ts |-> l[Len(l)].ts + 3 * BitLen, sig |-> "K"]) ELSE l

InitStuff ==
    /\ overflow_checks \in BOOLEAN
    /\ sig = SignalIteratorNew
    /\ \E bytes \in SeqsUpTo(ByteVals, MaxBytes) \ {<<>>} : \E tail \in BOOLEAN :
          /\ sent = [bytes |-> bytes, tail |-> tail]
          /\ it = Encode(bytes, tail)
    /\ it_done = TRUE
    /\ byteIt = ByteIteratorNew
    /\ byteStep = NoStep
    /\ byteOut = <<>>
    /\ ProtoIdle
    /\ PktIdle
    /\ SerIdle
    /\ CrcIdle
    /\ CtlIdle
    /\ SpifIdle
    /\ VcdIdle
    /\ Logic2Idle
    /\ LogicIdle
    /\ BuildIdle
    /\ HeaderIdle
    /\ DescIdle
    /\ DevIdle
    /\ WizIdle

NextStuff == ByteStep \/ BytePop

SpecStuff == InitStuff /\ [][NextStuff]_vars

----------------------------------------------------------------------------
(* ProtocolIterator::next *)

\* one pass of the loop of ProtocolIterator::next on packet `pkt`
ProtoPass(pkt, pass) ==
    /\ protoN < MaxPackets
    /\ protoN' = protoN + 1
    /\ transaction_state' = pass.state
    /\ protoStep' = [n |-> protoN + 1, pkt |-> pkt, before |-> transaction_state,
                     out |-> pass.out]
    /\ accepted' = IF pkt.kind = "Token" /\ pass.out = None THEN pkt.token
                   ELSE accepted
    /\ UNCHANGED <<byteVars, pktVars, serVars, crcVars, ctlVars, spifVars, vcdVars, logic2Vars, logicVars, buildVars, headerVars, descVars, devVars, wizVars>>

ProtoReset == \E pkt \in Packets :
    pkt.kind = "Reset" /\ ProtoPass(pkt, Packet_Reset(transaction_state))

ProtoSoF == \E pkt \in Packets :
    pkt.kind = "SoF" /\ ProtoPass(pkt, Packet_SoF(transaction_state, pkt.frm_num))

ProtoToken == \E pkt \in Packets :
    pkt.kind = "Token" /\ ProtoPass(pkt, Packet_Token(transaction_state, pkt.token))

ProtoData == \E pkt \in Packets :
    pkt.kind = "Data" /\ ProtoPass(pkt, Packet_Data(transaction_state, pkt.data))

ProtoHandShake == \E pkt \in Packets :
    pkt.kind = "HandShake"
        /\ ProtoPass(pkt, Packet_HandShake(transaction_state, pkt.handshake))

ProtoErr == \E pkt \in Packets :
    pkt.kind = "Err" /\ ProtoPass(pkt, Packet_Err(transaction_state))

InitProtocol == ByteIdle /\ ProtoIdle /\ PktIdle /\ SerIdle /\ CrcIdle /\ CtlIdle /\ SpifIdle /\ VcdIdle /\ Logic2Idle /\ LogicIdle /\ BuildIdle /\ HeaderIdle /\ DescIdle /\ DevIdle /\ WizIdle

NextProtocol ==
    ProtoReset \/ ProtoSoF \/ ProtoToken \/ ProtoData \/ ProtoHandShake \/ ProtoErr

SpecProtocol == InitProtocol /\ [][NextProtocol]_vars

----------------------------------------------------------------------------
(* PacketIterator::next *)

\* one pass of the loop on upstream item `byte`; `out` is None when the loop
\* goes round again, and `buf`, a local of next(), is empty at the next call
PktPass(byte, newbuf, out) ==
    /\ buf' = IF out = None THEN newbuf ELSE <<>>
    /\ pktStep' = [n |-> IF pktStep.n < 2 THEN pktStep.n + 1 ELSE 2,
                   byte |-> byte, before |-> buf, out |-> out]
    /\ UNCHANGED <<byteVars, protoVars, serVars, crcVars, ctlVars, spifVars, vcdVars, logic2Vars, logicVars, buildVars, headerVars, descVars, devVars, wizVars>>

\* a panic ends the program: no pass follows it
PktRunning == pktStep.out.kind # "Panic"

PktUpstreamErr ==
    /\ PktRunning
    /\ PktPass([kind |-> "Err"], buf, PktErr("upstream"))

PktReset ==
    /\ PktRunning
    /\ PktPass([kind |-> "Reset"], buf, [kind |-> "Reset"])

PktByteIdle ==
    /\ PktRunning
    /\ PktPass([kind |-> "Idle"], buf, None)

PktByte == \E b \in PktBytes :
    /\ PktRunning
    /\ Len(buf) < MaxBuf
    /\ PktPass([kind |-> "Byte", val |-> b], Append(buf, b), None)

PktEop ==
    /\ PktRunning
    /\ PktPass([kind |-> "Eop"], buf, Packet_try_from(buf))

InitPacket == ByteIdle /\ ProtoIdle /\ PktIdle /\ SerIdle /\ CrcIdle /\ CtlIdle /\ SpifIdle /\ VcdIdle /\ Logic2Idle /\ LogicIdle /\ BuildIdle /\ HeaderIdle /\ DescIdle /\ DevIdle /\ WizIdle

NextPacket == PktUpstreamErr \/ PktReset \/ PktByteIdle \/ PktByte \/ PktEop

SpecPacket == InitPacket /\ [][NextPacket]_vars

----------------------------------------------------------------------------
(* Serial::next *)

SerRunning == ~rx.panic /\ ~tx.panic

\* one pass of the while loop: pull a sample, update both monitors, finalize
\* them when neither produced an event, sort
SerialPull == \E smp \in Samples : \E gap \in SampleGaps :
    /\ SerRunning
    /\ pending_event = <<>>
    /\ serIn.n < MaxSamples
    /\ LET ts == IF serIn.n = 0 THEN 0 ELSE serIn.ts + gap
           urx == update(rx, ts, Masked(smp, rx_mask), Masked(smp, rts_mask))
           utx == update(tx, ts, Masked(smp, tx_mask), Masked(smp, cts_mask))
           evs == urx.res \o utx.res
           frx == finalize(urx.self)
           ftx == finalize(utx.self)
       IN /\ serIn' = [n |-> serIn.n + 1, ts |-> ts]
          /\ serStep' = [n |-> 1, rx |-> urx.self.state, tx |-> utx.self.state,
                         finalized |-> ~urx.self.panic /\ ~utx.self.panic /\ evs = <<>>]
          /\ IF urx.self.panic
             THEN rx' = urx.self /\ tx' = tx /\ pending_event' = urx.res
             ELSE IF utx.self.panic
             THEN rx' = urx.self /\ tx' = utx.self /\ pending_event' = evs
             ELSE IF evs = <<>>
             THEN /\ rx' = frx.self
                  /\ tx' = ftx.self
                  /\ pending_event' \in SortedDescending(ftx.res \o frx.res)
             ELSE /\ rx' = urx.self
                  /\ tx' = utx.self
                  /\ pending_event' \in SortedDescending(evs)
    /\ UNCHANGED <<byteVars, protoVars, pktVars, crcVars, ctlVars, spifVars, vcdVars, logic2Vars, logicVars, buildVars, headerVars, descVars, devVars, wizVars, serOut, masks>>

\* the upstream yields an error: it is returned with its timestamp
SerialPullErr == \E gap \in SampleGaps :
    /\ SerRunning
    /\ pending_event = <<>>
    /\ serIn.n < MaxSamples
    /\ serIn' = [n |-> serIn.n + 1, ts |-> IF serIn.n = 0 THEN 0 ELSE serIn.ts + gap]
    /\ serOut' = Append(serOut, SerEv(serIn'.ts, "Err", 0))
    /\ UNCHANGED <<byteVars, protoVars, pktVars, crcVars, ctlVars, spifVars, vcdVars, logic2Vars, logicVars, buildVars, headerVars, descVars, devVars, wizVars, rx, tx, pending_event, serStep, masks>>

\* pending_event.pop()
SerialPop ==
    /\ SerRunning
    /\ pending_event # <<>>
    /\ serOut' = Append(serOut, pending_event[Len(pending_event)])
    /\ pending_event' = SubSeq(pending_event, 1, Len(pending_event) - 1)
    /\ UNCHANGED <<byteVars, protoVars, pktVars, crcVars, ctlVars, spifVars, vcdVars, logic2Vars, logicVars, buildVars, headerVars, descVars, devVars, wizVars, rx, tx, serIn, serStep, masks>>

InitSerial == ByteIdle /\ ProtoIdle /\ PktIdle /\ SerIdle /\ CrcIdle /\ CtlIdle /\ SpifIdle /\ VcdIdle /\ Logic2Idle /\ LogicIdle /\ BuildIdle /\ HeaderIdle /\ DescIdle /\ DevIdle /\ WizIdle

NextSerial == SerialPull \/ SerialPullErr \/ SerialPop

SpecSerial == InitSerial /\ [][NextSerial]_vars

----------------------------------------------------------------------------
(* crc5 and crc16 applied to a byte slice *)

MaxCrcLen == 3
CrcBytes == {0, 1, 16, 128, 255}

CrcApply ==
    /\ crcOut = None
    /\ crcOut' = [crc5 |-> crc5(crcIn), crc16 |-> crc16(crcIn)]
    /\ UNCHANGED <<byteVars, protoVars, pktVars, serVars, ctlVars, spifVars, vcdVars, logic2Vars, logicVars, buildVars, headerVars, descVars, devVars, wizVars, crcIn>>

InitCrc ==
    /\ ByteIdle /\ ProtoIdle /\ PktIdle /\ SerIdle /\ CtlIdle /\ SpifIdle /\ VcdIdle /\ Logic2Idle /\ LogicIdle /\ BuildIdle /\ HeaderIdle /\ DescIdle /\ DevIdle /\ WizIdle
    /\ crcIn \in SeqsUpTo(CrcBytes, MaxCrcLen)
    /\ crcOut = None

NextCrc == CrcApply

SpecCrc == InitCrc /\ [][NextCrc]_vars

----------------------------------------------------------------------------
(* ControlEndpoint::update, called by DeviceEventIterator::next for every *)
(* transaction on endpoint 0                                               *)

MaxLength == 2

\* bmRequestType: to the device (standard Out and In, class, reserved type,
\* vendor), class to an interface, standard to an endpoint, reserved type to
\* Other, standard to the reserved recipient 4
RequestTypes == {0, 128, 32, 96, 192, 33, 130, 99, 132}

GET_DESCRIPTOR == 6
SET_CONFIGURATION == 9

\* SetConfiguration with every bmRequestType, and GetDescriptor from the
\* device for the Device descriptor and for a descriptor type that does not
\* exist (34); wLength is 0 or MaxLength
SetupPayloads ==
    {<<t, SET_CONFIGURATION, 0, 0, 0, 0, l, 0>> : t \in RequestTypes, l \in {0, MaxLength}}
    \cup {<<128, GET_DESCRIPTOR, 0, v, 0, 0, MaxLength, 0>> : v \in {DEVICE_DESCRIPTOR, 34}}

DataPayloads == SeqsUpTo({1}, MaxLength + 1)

CtlTokens == [token_type : {"Setup", "In", "Out", "Ping"}, address : {1}, endpoint : {0}]

\* the data packet of a transaction: a Setup carries a Data0 packet, with a
\* device request or with fewer than 8 bytes
CtlDatas(token) ==
    IF token.token_type = "Setup"
    THEN {None} \cup [pid : {"Data0"}, payload : SetupPayloads \cup {<<>>, <<1>>}]
    ELSE {None} \cup [pid : {"Data0", "Data1"}, payload : DataPayloads]

CtlHandShakes == {"Ack", "NAck", "Stall", "NYet"}

ControlReturn(transaction, r) ==
    /\ request_state' = r.request_state
    /\ endpoints' = IF endpoints = {} THEN CdCEndpoints ELSE endpoints
    /\ ctlStep' = [n |-> 1, transaction |-> transaction, before |-> request_state,
                   via |-> r.via, out |-> r.out]
    /\ UNCHANGED <<byteVars, protoVars, pktVars, serVars, crcVars, spifVars, vcdVars, logic2Vars, logicVars, buildVars, headerVars, descVars, devVars, wizVars>>

ControlUpdate(transaction) ==
    ControlReturn(transaction, ControlEndpoint_update(request_state, transaction))

ControlAcked ==
    /\ ctlStep.n \in {0, 1}
    /\ \E token \in CtlTokens : \E data \in CtlDatas(token) :
        ControlUpdate([token |-> token, data |-> data, handshake |-> "Ack"])

ControlNotAcked ==
    /\ ctlStep.n \in {0, 1}
    /\ \E token \in CtlTokens, hs \in CtlHandShakes \ {"Ack"} :
        \E data \in {None, [pid |-> "Data1", payload |-> <<>>],
                     [pid |-> "Data0", payload |-> <<1>>]} :
            ControlUpdate([token |-> token, data |-> data, handshake |-> hs])

InitControl == ByteIdle /\ ProtoIdle /\ PktIdle /\ SerIdle /\ CrcIdle /\ CtlIdle /\ SpifIdle /\ VcdIdle /\ Logic2Idle /\ LogicIdle /\ BuildIdle /\ HeaderIdle /\ DescIdle /\ DevIdle /\ WizIdle

NextControl == ControlAcked \/ ControlNotAcked

SpecControl == InitControl /\ [][NextControl]_vars

----------------------------------------------------------------------------
(* Serial::next on the framing scenario: baud 1 (one tick is half a second), *)
(* --tx 0, no parity; --rx, --rts and --cts as the command line gives them.  *)
(* Monitor.ts starts at -0.1 s and is only compared with the first sample's  *)
(* time, 0, before it is overwritten: any negative start gives the same run. *)

ScenarioLen == 12

\* (0.0, 1), (1.0, 0), (2.5, 1), (3.5, 0), (4.5, 1), ...: the start bit's edge
\* at 1.0, then one change per bit
ScenarioTs(i) == IF i = 1 THEN 0 ELSE IF i = 2 THEN SerBit ELSE i * SerBit - 1

ScenarioValue(i) == i % 2

\* 1 << channel; a flow-control pin that is not given has mask 0
ScenarioMasks ==
    [tx : {1}, rx : {2, 4}, rts : {0, 4, 8}, cts : {0, 4, 8}]

ScenarioPull ==
    /\ SerRunning
    /\ pending_event = <<>>
    /\ serIn.n < ScenarioLen
    /\ LET ts == ScenarioTs(serIn.n + 1)
           smp == ScenarioValue(serIn.n + 1)
           urx == update(rx, ts, Masked(smp, masks.rx), Masked(smp, masks.rts))
           utx == update(tx, ts, Masked(smp, masks.tx), Masked(smp, masks.cts))
           evs == urx.res \o utx.res
           frx == finalize(urx.self)
           ftx == finalize(utx.self)
       IN /\ serIn' = [n |-> serIn.n + 1, ts |-> ts]
          /\ serStep' = [n |-> 1, rx |-> urx.self.state, tx |-> utx.self.state,
                         finalized |-> evs = <<>>]
          /\ IF evs = <<>>
             THEN /\ rx' = frx.self
                  /\ tx' = ftx.self
                  /\ pending_event' \in SortedDescending(ftx.res \o frx.res)
             ELSE /\ rx' = urx.self
                  /\ tx' = utx.self
                  /\ pending_event' \in SortedDescending(evs)
    /\ UNCHANGED <<byteVars, protoVars, pktVars, crcVars, ctlVars, spifVars, vcdVars, logic2Vars, logicVars, buildVars, headerVars, descVars, devVars, wizVars, serOut, masks>>

InitScenario ==
    /\ ByteIdle /\ ProtoIdle /\ PktIdle /\ CrcIdle /\ CtlIdle /\ SpifIdle /\ VcdIdle /\ Logic2Idle /\ LogicIdle /\ BuildIdle /\ HeaderIdle /\ DescIdle /\ DevIdle /\ WizIdle
    /\ rx = MonitorNew("rx")
    /\ tx = MonitorNew("tx")
    /\ pending_event = <<>>
    /\ serIn = [n |-> 0, ts |-> 0]
    /\ serOut = <<>>
    /\ serStep = NoSerStep
    /\ masks \in ScenarioMasks

NextScenario == ScenarioPull \/ SerialPop

SpecScenario == InitScenario /\ [][NextScenario]_vars

----------------------------------------------------------------------------
(* Spif::next: one pass of its loop per SPI event pulled.  The SPI decoder   *)
(* emits ChipSelect(level) when the CS level changes and Data per word.      *)

MaxSpi == 6

\* (mosi, miso) words: each kind of command byte and a byte that is none, with
\* a miso byte that differs from it
SpiWords ==
    {<<3, 165>>, <<2, 17>>, <<90, 34>>, <<6, 51>>, <<5, 68>>, <<216, 85>>,
     <<159, 102>>, <<255, 0>>}

SpifSelf == [cs |-> cs, idx |-> idx, partial |-> partial]

Counted(n, out) == IF out = None THEN n ELSE n + 1

SpifReturn(ev, r) ==
    /\ cs' = r.self.cs
    /\ idx' = r.self.idx
    /\ partial' = r.self.partial
    /\ spifStep' = [n |-> spifStep.n + 1, ev |-> ev, before |-> SpifSelf, out |-> r.out]
    /\ spifWin' =
         [line |-> IF ev.kind = "ChipSelect"
                   THEN IF ev.level THEN "high" ELSE "low"
                   ELSE spifWin.line,
          opened |-> IF ev.kind = "ChipSelect" THEN ~ev.level ELSE spifWin.opened,
          outs |-> IF ev.kind = "ChipSelect" /\ ~ev.level THEN 0
                   ELSE Counted(spifWin.outs, r.out),
          since |-> IF ev.kind # "Data" \/ cs THEN spifWin.since
                    ELSE Append(IF partial = None THEN <<>> ELSE spifWin.since,
                                [ts |-> spifStep.n + 1, mosi |-> ev.mosi,
                                 miso |-> ev.miso])]
    /\ UNCHANGED <<byteVars, protoVars, pktVars, serVars, crcVars, ctlVars, vcdVars, logic2Vars, logicVars, buildVars, headerVars, descVars, devVars, wizVars>>

SpifPull(ev) == SpifReturn(ev, Spif_update(SpifSelf, spifStep.n + 1, ev))

SpifChipSelect ==
    /\ spifStep.n < MaxSpi
    /\ \E level \in BOOLEAN :
        /\ spifWin.line # (IF level THEN "high" ELSE "low")
        /\ SpifPull([kind |-> "ChipSelect", level |-> level])

SpifData ==
    /\ spifStep.n < MaxSpi
    /\ \E w \in SpiWords : SpifPull([kind |-> "Data", mosi |-> w[1], miso |-> w[2]])

\* the upstream yields an error: it is returned with its timestamp
SpifUpstreamErr ==
    /\ spifStep.n < MaxSpi
    /\ spifStep' = [n |-> spifStep.n + 1, ev |-> [kind |-> "Err"], before |-> SpifSelf,
                    out |-> SpifErr(spifStep.n + 1, "upstream")]
    /\ UNCHANGED <<byteVars, protoVars, pktVars, serVars, crcVars, ctlVars, vcdVars, logic2Vars, logicVars, buildVars, headerVars, descVars, devVars, wizVars,
                   cs, idx, partial, spifWin>>

InitSpif ==
    /\ ByteIdle /\ ProtoIdle /\ PktIdle /\ SerIdle /\ CrcIdle /\ CtlIdle /\ SpifIdle /\ VcdIdle /\ Logic2Idle /\ LogicIdle /\ BuildIdle /\ HeaderIdle /\ DescIdle /\ DevIdle /\ WizIdle

NextSpif == SpifChipSelect \/ SpifData \/ SpifUpstreamErr

SpecSpif == InitSpif /\ [][NextSpif]_vars

----------------------------------------------------------------------------
(* VcdParser::next: one command of the file per step; a pull that finds the *)
(* parser stopped, or the file at its end, returns None                     *)

MaxVcd == 5

\* the commands of a file: two timescales, four times, two identifiers with a
\* low, a high and an unknown value, four declarations, a command the
\* parser skips and a parse error
VcdCommands ==
    [kind : {"Timescale"}, n : {1, 2}]
    \cup [kind : {"Timestamp"}, ts : 0 .. 3]
    \cup [kind : {"ChangeScalar"}, id : {"a", "b"}, v : {"V0", "V1", "X"}]
    \cup {[kind |-> "VarDef", ty |-> "Wire", id |-> "a", name |-> <<"D", 0>>],
          [kind |-> "VarDef", ty |-> "Wire", id |-> "b", name |-> <<"D", 1>>],
          [kind |-> "VarDef", ty |-> "Reg", id |-> "a", name |-> <<"D", 0>>],
          [kind |-> "VarDef", ty |-> "Wire", id |-> "a", name |-> <<"clk">>]}
    \cup {[kind |-> "Comment"], [kind |-> "Err"]}

VcdReturn(cmd, r) ==
    /\ vcd' = r.self
    /\ vcdStep' = [n |-> vcdStep.n + 1, cmd |-> cmd, before |-> vcd, out |-> r.out,
                   last |-> IF cmd.kind = "Timestamp" THEN cmd.ts * vcd.factor
                            ELSE vcdStep.last,
                   prev |-> vcdStep.last]
    /\ vcdOut' = IF r.out = None THEN vcdOut ELSE Append(vcdOut, r.out)
    /\ UNCHANGED <<byteVars, protoVars, pktVars, serVars, crcVars, ctlVars, spifVars, logic2Vars, logicVars, buildVars, headerVars, descVars, devVars, wizVars, logicVars>>

\* self.input.next()? hands over one command
VcdCommand ==
    /\ vcdStep.n < MaxVcd
    /\ ~vcd.stopped /\ ~vcd.panic /\ vcdStep.cmd # EndOfStream
    /\ \E cmd \in VcdCommands : VcdReturn(cmd, OnCommand(vcd, cmd))

\* self.input.next()? finds the file at its end
VcdEof ==
    /\ vcdStep.n < MaxVcd
    /\ ~vcd.stopped /\ ~vcd.panic
    /\ vcdStep' = [vcdStep EXCEPT !.n = @ + 1, !.cmd = EndOfStream, !.before = vcd,
                                  !.out = EndOfStream, !.prev = vcdStep.last]
    /\ UNCHANGED <<byteVars, protoVars, pktVars, serVars, crcVars, ctlVars, spifVars,
                   logic2Vars, logicVars, buildVars, headerVars, descVars, devVars, wizVars, vcd, vcdOut>>

\* if self.stopped { return None }
VcdStopped ==
    /\ vcdStep.n < MaxVcd
    /\ vcd.stopped
    /\ vcdStep' = [vcdStep EXCEPT !.n = @ + 1, !.cmd = None, !.before = vcd,
                                  !.out = EndOfStream, !.prev = vcdStep.last]
    /\ UNCHANGED <<byteVars, protoVars, pktVars, serVars, crcVars, ctlVars, spifVars,
                   logic2Vars, logicVars, buildVars, headerVars, descVars, devVars, wizVars, vcd, vcdOut>>

InitVcd ==
    /\ ByteIdle /\ ProtoIdle /\ PktIdle /\ SerIdle /\ CrcIdle /\ CtlIdle /\ SpifIdle /\ VcdIdle /\ Logic2Idle /\ LogicIdle /\ BuildIdle /\ HeaderIdle /\ DescIdle /\ DevIdle /\ WizIdle

NextVcd == VcdCommand \/ VcdEof \/ VcdStopped

SpecVcd == InitVcd /\ [][NextVcd]_vars

----------------------------------------------------------------------------
(* LogicData::next over the export of two channel files *)

MaxTime == 3

\* the exports new_parser accepts: at least one transition ("No sample found !"
\* otherwise)
Exports ==
    {c \in [files : [ChannelIds -> [initial_state : BOOLEAN,
                                    transitions : SUBSET (0 .. MaxTime)]],
            first : [0 .. MaxTime -> ChannelIds]] :
        c.files[0].transitions \cup c.files[1].transitions # {}}

\* self.transitions.next()? yields a batch
Logic2Next ==
    /\ logic2.transitions # <<>>
    /\ logic2' = batching(logic2)
    /\ logic2Step' = [kind |-> "Sample", ts |-> logic2'.current_ts,
                      v |-> logic2'.current_state]
    /\ logic2Out' = Append(logic2Out, logic2Step')
    /\ UNCHANGED <<byteVars, protoVars, pktVars, serVars, crcVars, ctlVars, spifVars,
                   vcdVars, logicVars, buildVars, headerVars, descVars, devVars, wizVars, channels>>

\* the merged transitions are used up: batching finds new_ts at None
Logic2End ==
    /\ logic2.transitions = <<>>
    /\ logic2Step' = EndOfStream
    /\ UNCHANGED <<byteVars, protoVars, pktVars, serVars, crcVars, ctlVars, spifVars,
                   vcdVars, logicVars, buildVars, headerVars, descVars, devVars, wizVars, channels, logic2, logic2Out>>

InitLogic2 ==
    /\ ByteIdle /\ ProtoIdle /\ PktIdle /\ SerIdle /\ CrcIdle /\ CtlIdle /\ SpifIdle /\ VcdIdle /\ LogicIdle /\ BuildIdle /\ HeaderIdle /\ DescIdle /\ DevIdle /\ WizIdle
    /\ channels \in Exports
    /\ logic2 = new_parser(channels.files, channels.first)
    /\ logic2Step = None
    /\ logic2Out = <<>>

NextLogic2 == Logic2Next \/ Logic2End

SpecLogic2 == InitLogic2 /\ [][NextLogic2]_vars

----------------------------------------------------------------------------
(* Pulling the binary single-channel parsers over a capture file *)

MaxRecords == 2
MaxPulls == 5

\* ts: i64 and smp: u8 of a record, as the nine bytes of the file
Record(ts, smp) == <<ts % 256, ts \div 256, 0, 0, 0, 0, 0, 0, smp>>

LogicRecords == {Record(ts, smp) : ts \in {1, 2, 300}, smp \in {0, 1}}

RECURSIVE Flat(_)
Flat(records) == IF records = <<>> THEN <<>> ELSE Head(records) \o Flat(Tail(records))

\* capture files: whole records, followed by up to eight bytes of a record
\* that was cut short
CaptureFiles ==
    {Flat(records) \o SubSeq(Record(1, 1), 1, cut) :
        records \in UNION {[1 .. n -> LogicRecords] : n \in 0 .. MaxRecords},
        cut \in {0, 4, 8}}

Pushed(out, ev) == IF ev = EndOfStream THEN out ELSE Append(out, ev)

LogicReturn(r) ==
    /\ logic' = r.self
    /\ logicStep' = [n |-> logicStep.n + 1, of |-> "source", before |-> logicOut,
                     out |-> r.out]
    /\ logicOut' = Pushed(logicOut, r.out)
    /\ UNCHANGED <<byteVars, protoVars, pktVars, serVars, crcVars, ctlVars, spifVars,
                   vcdVars, logic2Vars, buildVars, headerVars, descVars, devVars, wizVars, logicdata, logicdataOut>>

LogicNext ==
    /\ logicStep.n < MaxPulls
    /\ LogicReturn(LogicDataParser_next(logic))

LogicdataReturn(r) ==
    /\ logicdata' = r.self
    /\ logicStep' = [n |-> logicStep.n + 1, of |-> "input", before |-> logicdataOut,
                     out |-> r.out]
    /\ logicdataOut' = Pushed(logicdataOut, r.out)
    /\ UNCHANGED <<byteVars, protoVars, pktVars, serVars, crcVars, ctlVars, spifVars,
                   vcdVars, logic2Vars, buildVars, headerVars, descVars, devVars, wizVars, logic, logicOut>>

LogicdataNext ==
    /\ logicStep.n < MaxPulls
    /\ LogicdataReturn(logicdata_next(logicdata))

InitLogic ==
    /\ ByteIdle /\ ProtoIdle /\ PktIdle /\ SerIdle /\ CrcIdle /\ CtlIdle /\ SpifIdle /\ VcdIdle
    /\ Logic2Idle /\ BuildIdle /\ HeaderIdle /\ DescIdle /\ DevIdle /\ WizIdle
    /\ \E file \in CaptureFiles, freq \in {0, 2} :
        /\ logic = LogicDataParserNew(file, freq)
        /\ logicdata = [input |-> file, freq |-> IF freq = 0 THEN 1 ELSE freq,
                        current_ts |-> 0]
    /\ logicStep = NoLogicStep
    /\ logicOut = <<>>
    /\ logicdataOut = <<>>

NextLogic == LogicNext \/ LogicdataNext

SpecLogic == InitLogic /\ [][NextLogic]_vars

----------------------------------------------------------------------------
(* The builders called on a stack *)

MaxDepth == 2
MaxBuilds == 2

EventTypes == {"Sample", "Signal", "Byte", "Packet", "protocol::Event", "DeviceEvent"}

\* a stage some earlier builder left on the stack
Stages == {Stage(t, "None", None) : t \in EventTypes}

Stacks == UNION {[1 .. n -> Stages] : n \in 0 .. MaxDepth}

BuildReturn(builder, r) ==
    /\ pipeline' = r.pipeline
    /\ buildStep' = [n |-> buildStep.n + 1, builder |-> builder, before |-> pipeline,
                     panic |-> r.panic]
    /\ UNCHANGED <<byteVars, protoVars, pktVars, serVars, crcVars, ctlVars, spifVars,
                   vcdVars, logic2Vars, logicVars, headerVars, descVars, devVars, wizVars>>

\* a panic ends the process
Building == buildStep.n < MaxBuilds /\ buildStep.panic = None

\* source::vcd::build, source::logic::build, source::logic2::build
SourceBuild ==
    /\ Building
    /\ BuildReturn("source", Built(Append(pipeline, Stage("Sample", "None", None))))

SignalBuild == Building /\ BuildReturn("usb::signal", signal_build(pipeline))

ByteBuild == Building /\ BuildReturn("usb::byte", byte_build(pipeline))

PacketBuild == Building /\ BuildReturn("usb::packet", packet_build(pipeline))

ProtocolBuild == Building /\ BuildReturn("usb::protocol", protocol_build(pipeline))

DeviceBuild == Building /\ BuildReturn("usb::device", device_build(pipeline))

InitBuild ==
    /\ ByteIdle /\ ProtoIdle /\ PktIdle /\ SerIdle /\ CrcIdle /\ CtlIdle /\ SpifIdle /\ VcdIdle
    /\ Logic2Idle /\ LogicIdle
    /\ pipeline \in Stacks
    /\ buildStep = NoBuildStep
    /\ HeaderIdle /\ DescIdle /\ DevIdle /\ WizIdle

NextBuild ==
    SourceBuild \/ SignalBuild \/ ByteBuild \/ PacketBuild \/ ProtocolBuild \/ DeviceBuild

SpecBuild == InitBuild /\ [][NextBuild]_vars

----------------------------------------------------------------------------
(* parse_common_header applied to a buffer *)

MaxTail == 1

\* the tag, the tag with another last byte, the tag in lower case
Prefixes == {SALEAE, <<60, 83, 65, 76, 69, 65, 69, 60>>,
             <<60, 115, 97, 108, 101, 97, 101, 62>>}

Words == {<<0, 0, 0, 0>>, <<1, 0, 0, 0>>, <<2, 0, 0, 0>>, <<0, 1, 0, 0>>,
          <<0, 0, 0, 1>>, <<255, 255, 255, 127>>, <<4, 3, 2, 1>>}

RECURSIVE Zeros(_)
Zeros(n) == IF n = 0 THEN <<>> ELSE <<0>> \o Zeros(n - 1)

\* what file.read(&mut buf[..16]) can leave: a header, one cut short at any
\* length, or a header followed by further bytes
Headers ==
    {SubSeq(p \o v \o t \o Zeros(MaxTail), 1, n) :
        p \in Prefixes, v \in Words, t \in Words, n \in {0, 4, 8, 12, 15, 16, 16 + MaxTail}}

Parse ==
    /\ parsed = None
    /\ parsed' = parse_common_header(header)
    /\ UNCHANGED <<byteVars, protoVars, pktVars, serVars, crcVars, ctlVars, spifVars,
                   vcdVars, logic2Vars, logicVars, buildVars, descVars, devVars, wizVars, header>>

InitHeader ==
    /\ ByteIdle /\ ProtoIdle /\ PktIdle /\ SerIdle /\ CrcIdle /\ CtlIdle /\ SpifIdle /\ VcdIdle
    /\ Logic2Idle /\ LogicIdle /\ BuildIdle
    /\ header \in Headers
    /\ parsed = None
    /\ DescIdle
    /\ DevIdle
    /\ WizIdle

NextHeader == Parse

SpecHeader == InitHeader /\ [][NextHeader]_vars

----------------------------------------------------------------------------
(* PlainInterfaceDescriptor::parse, one step per descriptor it reads *)

MaxClassDescriptors == 2
MaxConsumed == 3

InterfaceClasses == {2, 8, 10, 255, 3}

\* bLength, bDescriptorType 4, id, alternate setting, bNumEndpoints, class,
\* subclass, protocol, string index
InterfaceHeader(class, n) == <<9, INTERFACE_DESCRIPTOR, 0, 0, n, class, 0, 0, 0>>

\* CS_INTERFACE (0x24) and CS_ENDPOINT (0x25) descriptors, one of length 0, one
\* of length 2, one longer than what follows it, and one of another type
ClassDescriptors ==
    {<<5, 36, 0, 16, 1>>, <<4, 37, 1, 2>>, <<0, 36>>, <<2, 36>>, <<9, 36, 0>>,
     <<3, 11, 0>>}

Attributes == {0, 1, 2, 3, 4, 13, 49, 66, 131, 253, 255}
Addresses == {1, 129, 17}

EndpointDescriptors ==
    {<<7, ENDPOINT_DESCRIPTOR, a, attributes, 64, 0, 0>> :
        a \in Addresses, attributes \in Attributes}
    \cup {<<7, ENDPOINT_DESCRIPTOR, 1>>, <<6, ENDPOINT_DESCRIPTOR, 1, 2, 64, 0>>}

RECURSIVE Concat(_)
Concat(ds) == IF ds = <<>> THEN <<>> ELSE Head(ds) \o Concat(Tail(ds))

ClassParts ==
    {Concat(ds) : ds \in UNION {[1 .. n -> ClassDescriptors] : n \in 0 .. MaxClassDescriptors}}

\* a whole interface descriptor, and one cut after its second byte
Responses ==
    {InterfaceHeader(c, 0) \o parts : c \in InterfaceClasses, parts \in ClassParts}
    \cup {InterfaceHeader(c, 1) \o parts \o e :
            c \in InterfaceClasses, parts \in ClassParts, e \in EndpointDescriptors}
    \cup {<<9, INTERFACE_DESCRIPTOR>>, <<9>>, <<9, ENDPOINT_DESCRIPTOR, 0, 0, 0, 2, 0, 0, 0>>}

IfaceReturned(self, result, msg) == [self EXCEPT !.pc = "done", !.result = result, !.msg = msg]

IfaceStepOf(kind, before, transfer) ==
    [kind |-> kind, before |-> before, transfer |-> transfer]

\* types.rs:777-802: the interface descriptor's own nine bytes
IfaceHeader ==
    /\ iface.pc = "start"
    /\ ifaceStep' = IfaceStepOf("Header", read_ptr, Fail(""))
    /\ IF Len(response) < 2
       THEN iface' = IfaceReturned(iface, "Err", "Truncated descriptor") /\ UNCHANGED read_ptr
       ELSE IF response[2] # INTERFACE_DESCRIPTOR
       THEN iface' = IfaceReturned(iface, "Err", "Invalid descriptor type") /\ UNCHANGED read_ptr
       ELSE IF ~(response[1] = 9 /\ Len(response) >= 9)
       THEN iface' = IfaceReturned(iface, "Err", "Truncated interface descriptor")
            /\ UNCHANGED read_ptr
       ELSE IF ~InterfaceClass_try_from(response[6]).ok
       THEN iface' = IfaceReturned(iface, "Err", "Unsupported interface class")
            /\ UNCHANGED read_ptr
       ELSE /\ iface' = [iface EXCEPT !.pc = "class",
                                      !.class = InterfaceClass_try_from(response[6]).v,
                                      !.num_endpoints = response[5]]
            /\ read_ptr' = From(response, 9)
    /\ UNCHANGED <<byteVars, protoVars, pktVars, serVars, crcVars, ctlVars, spifVars,
                   vcdVars, logic2Vars, logicVars, buildVars, headerVars, devVars, wizVars, response>>

\* types.rs:805-807: read_ptr.get(1) is None
ClassTruncated ==
    /\ iface.pc = "class"
    /\ Len(read_ptr) < 2
    /\ iface' = IfaceReturned(iface, "Err", "Truncated descriptor")
    /\ ifaceStep' = IfaceStepOf("Truncated", read_ptr, Fail(""))
    /\ UNCHANGED <<byteVars, protoVars, pktVars, serVars, crcVars, ctlVars, spifVars,
                   vcdVars, logic2Vars, logicVars, buildVars, headerVars, devVars, wizVars, response, read_ptr>>

\* types.rs:809-811: an endpoint descriptor ends the class-specific ones
ClassBreak ==
    /\ iface.pc = "class"
    /\ Len(read_ptr) >= 2
    /\ read_ptr[2] = ENDPOINT_DESCRIPTOR
    /\ iface' = [iface EXCEPT !.pc = "endpoints"]
    /\ ifaceStep' = IfaceStepOf("Break", read_ptr, Fail(""))
    /\ UNCHANGED <<byteVars, protoVars, pktVars, serVars, crcVars, ctlVars, spifVars,
                   vcdVars, logic2Vars, logicVars, buildVars, headerVars, devVars, wizVars, response, read_ptr>>

Consumed(self, parsed_, before) ==
    IF parsed_.kind = "Ok"
    THEN [self EXCEPT !.consumed = IF @ < MaxConsumed THEN @ + 1 ELSE @]
    ELSE IfaceReturned(self, parsed_.kind, parsed_.msg)

\* types.rs:813-815: one pass of the loop over a class-specific descriptor
ClassSpecific ==
    /\ iface.pc = "class"
    /\ Len(read_ptr) >= 2
    /\ read_ptr[2] # ENDPOINT_DESCRIPTOR
    /\ iface' = Consumed(iface, parse_descriptor(iface.class, read_ptr), read_ptr)
    /\ read_ptr' = IF parse_descriptor(iface.class, read_ptr).kind = "Ok"
                   THEN parse_descriptor(iface.class, read_ptr).next
                   ELSE read_ptr
    /\ ifaceStep' = IfaceStepOf("Class", read_ptr, Fail(""))
    /\ UNCHANGED <<byteVars, protoVars, pktVars, serVars, crcVars, ctlVars, spifVars,
                   vcdVars, logic2Vars, logicVars, buildVars, headerVars, devVars, wizVars, response>>

\* types.rs:819-825: one pass of the loop over the endpoint descriptors
EndpointNext ==
    /\ iface.pc = "endpoints"
    /\ iface.num_endpoints > 0
    /\ LET len == IF read_ptr = <<>> THEN 0 ELSE read_ptr[1] IN
       IF len > Len(read_ptr)
       THEN /\ iface' = IfaceReturned(iface, "Panic", "range end index out of range")
            /\ ifaceStep' = IfaceStepOf("Endpoint", read_ptr, Fail(""))
            /\ UNCHANGED read_ptr
       ELSE IF len # 7
       THEN /\ iface' = IfaceReturned(iface, "Err", "TryFromSliceError")
            /\ ifaceStep' = IfaceStepOf("Endpoint", read_ptr, Fail(""))
            /\ UNCHANGED read_ptr
       ELSE /\ ifaceStep' = IfaceStepOf("EndpointDescriptor", read_ptr,
                                        EndpointDescriptor_try_from(Upto(read_ptr, 7)))
            /\ IF EndpointDescriptor_try_from(Upto(read_ptr, 7)).ok
               THEN /\ iface' = [iface EXCEPT !.num_endpoints = @ - 1]
                    /\ read_ptr' = From(read_ptr, 7)
               ELSE /\ iface' = IfaceReturned(iface, "Err",
                                         EndpointDescriptor_try_from(Upto(read_ptr, 7)).msg)
                    /\ UNCHANGED read_ptr
    /\ UNCHANGED <<byteVars, protoVars, pktVars, serVars, crcVars, ctlVars, spifVars,
                   vcdVars, logic2Vars, logicVars, buildVars, headerVars, devVars, wizVars, response>>

\* types.rs:827-837
IfaceReturn ==
    /\ iface.pc = "endpoints"
    /\ iface.num_endpoints = 0
    /\ iface' = IfaceReturned(iface, "Ok", "")
    /\ ifaceStep' = IfaceStepOf("Return", read_ptr, Fail(""))
    /\ UNCHANGED <<byteVars, protoVars, pktVars, serVars, crcVars, ctlVars, spifVars,
                   vcdVars, logic2Vars, logicVars, buildVars, headerVars, devVars, wizVars, response, read_ptr>>

InitDescriptor ==
    /\ ByteIdle /\ ProtoIdle /\ PktIdle /\ SerIdle /\ CrcIdle /\ CtlIdle /\ SpifIdle /\ VcdIdle
    /\ Logic2Idle /\ LogicIdle /\ BuildIdle /\ HeaderIdle
    /\ response \in Responses
    /\ read_ptr = response
    /\ iface = [pc |-> "start", class |-> "", num_endpoints |-> 0, consumed |-> 0,
                result |-> "", msg |-> ""]
    /\ ifaceStep = NoIfaceStep
    /\ DevIdle
    /\ WizIdle

NextDescriptor ==
    IfaceHeader \/ ClassTruncated \/ ClassBreak \/ ClassSpecific \/ EndpointNext \/ IfaceReturn

SpecDescriptor == InitDescriptor /\ [][NextDescriptor]_vars

----------------------------------------------------------------------------
(* DeviceEventIterator::next, one step per event pulled from the protocol  *)
(* stage; an event that returns nothing is followed by the next pull       *)

MaxEvents == 4

DevSetupPayloads ==
    {<<0, SET_CONFIGURATION, 0, 0, 0, 0, 0, 0>>,
     <<128, GET_DESCRIPTOR, 0, DEVICE_DESCRIPTOR, 0, 0, MaxLength, 0>>,
     <<1>>}

DevDatas(token) ==
    IF token.token_type = "Setup"
    THEN [pid : {"Data0"}, payload : DevSetupPayloads]
    ELSE {None, [pid |-> "Data1", payload |-> <<>>], [pid |-> "Data1", payload |-> <<1>>]}

\* endpoint 0, the endpoints of CdCEndpoints, one that is in no map
DevTokens == [token_type : {"Setup", "In", "Out"}, address : {1}, endpoint : {0, 1, 2, 3, 6, 4}]

DevTransactions ==
    UNION {[token : {token}, data : DevDatas(token), handshake : {"Ack", "NAck"}] :
             token \in DevTokens}

\* what one pass of the loop leaves: the event it pulled at time n, what next
\* returns for it (None: the loop goes on), and the states before it
DevReturn(event, out) ==
    devStep' = [n |-> devStep.n + 1, prev |-> devStep.event.kind, event |-> event,
                before |-> request_state, known |-> endpoints, out |-> out,
                ts |-> devStep.n]

DevPulls == devStep.n < MaxEvents /\ devStep.event.kind # "End"

\* device.rs:70
DevUpstreamErr ==
    /\ DevPulls
    /\ \E msg \in {"upstream", "Invalid endpoint"} : DevReturn(DevErr(msg), DevErr(msg))
    /\ UNCHANGED <<byteVars, protoVars, pktVars, serVars, crcVars, spifVars, vcdVars,
                   logic2Vars, logicVars, buildVars, headerVars, descVars, ctlVars, wizVars>>

\* device.rs:74
DevSof ==
    /\ DevPulls
    /\ DevReturn([kind |-> "Sof"], None)
    /\ UNCHANGED <<byteVars, protoVars, pktVars, serVars, crcVars, spifVars, vcdVars,
                   logic2Vars, logicVars, buildVars, headerVars, descVars, ctlVars, wizVars>>

\* device.rs:75
DevReset ==
    /\ DevPulls
    /\ DevReturn([kind |-> "Reset"], [kind |-> "Reset"])
    /\ request_state' = DeviceReset(request_state)
    /\ UNCHANGED <<byteVars, protoVars, pktVars, serVars, crcVars, spifVars, vcdVars,
                   logic2Vars, logicVars, buildVars, headerVars, descVars, wizVars, endpoints, ctlStep>>

\* device.rs:78-79, 86-89
DevControl ==
    /\ DevPulls
    /\ \E transaction \in DevTransactions :
        /\ transaction.token.endpoint = 0
        /\ DevReturn([kind |-> "Transaction", transaction |-> transaction],
                     ControlEndpoint_update(request_state, transaction).out)
        /\ request_state' = ControlEndpoint_update(request_state, transaction).request_state
        /\ endpoints' = IF endpoints = {} THEN CdCEndpoints ELSE endpoints
    /\ UNCHANGED <<byteVars, protoVars, pktVars, serVars, crcVars, spifVars, vcdVars,
                   logic2Vars, logicVars, buildVars, headerVars, descVars, wizVars, ctlStep>>

\* device.rs:80-89
DevEndpoint ==
    /\ DevPulls
    /\ \E transaction \in DevTransactions :
        /\ transaction.token.endpoint # 0
        /\ DevReturn([kind |-> "Transaction", transaction |-> transaction],
                     Endpoint_update(endpoints, transaction))
    /\ UNCHANGED <<byteVars, protoVars, pktVars, serVars, crcVars, spifVars, vcdVars,
                   logic2Vars, logicVars, buildVars, headerVars, descVars, ctlVars, wizVars>>

\* device.rs:68: self.it.next()? on an exhausted upstream
DevEnd ==
    /\ DevPulls
    /\ DevReturn(EndOfStream, EndOfStream)
    /\ UNCHANGED <<byteVars, protoVars, pktVars, serVars, crcVars, spifVars, vcdVars,
                   logic2Vars, logicVars, buildVars, headerVars, descVars, ctlVars, wizVars>>

InitDevice ==
    /\ ByteIdle /\ ProtoIdle /\ PktIdle /\ SerIdle /\ CrcIdle /\ CtlIdle /\ SpifIdle /\ VcdIdle
    /\ Logic2Idle /\ LogicIdle /\ BuildIdle /\ HeaderIdle /\ DescIdle /\ DevIdle /\ WizIdle

NextDevice == DevUpstreamErr \/ DevSof \/ DevReset \/ DevControl \/ DevEndpoint \/ DevEnd

SpecDevice == InitDevice /\ [][NextDevice]_vars

----------------------------------------------------------------------------
(* Wizfi310::next, one step per event pulled from the serial stage; the     *)
(* serial events are those of a script, with upstream errors in between     *)

MaxErrors == 2

Typed(kind, s) == [i \in 1 .. Len(s) |-> [kind |-> kind, c |-> s[i]]]

\* a command and its response; a response announcing two bytes to send and
\* the bytes; a header announcing two bytes to receive and the bytes; a
\* response whose length is no number; a header without address; a header cut
\* short; flow control and a framing error of the serial stage
WizScripts ==
    {Typed("Tx", <<"A", "T", "CR">>) \o Typed("Rx", <<"[", "O", "K", "]", "CR", "LF">>),
     Typed("Rx", <<"[", "1", ",", "2", "]", "CR", "LF">>) \o Typed("Tx", <<"A", "CR", "B">>),
     Typed("Rx", <<"{", "1", ",", "1", "0", ".", "0", ".", "0", ".", "2", ",", "8", "0",
                   ",", "2", "}", "A", "}", "B">>),
     Typed("Rx", <<"[", ",", "A", "]", "CR", "LF">>),
     Typed("Rx", <<"{", "1", ",", "2", "}">>),
     Typed("Rx", <<"}">>),
     <<[kind |-> "Cts", c |-> "1"], [kind |-> "TxError", c |-> "0"]>>
        \o Typed("Tx", <<"A", "CR">>)}

WizRunning == wizStep.out.kind \notin {"Panic", "End"}

WizReturn(script, at, ev, r) ==
    /\ wiz' = r.self
    /\ wizStep' = [n |-> wizStep.n + 1, script |-> script, at |-> at, ev |-> ev,
                   out |-> r.out, ts |-> wizStep.n]

\* wizfi310.rs:41-104
WizPull ==
    /\ WizRunning
    /\ \E script \in WizScripts :
        /\ wizStep.script \in {<<>>, script}
        /\ wizStep.at < Len(script)
        /\ WizReturn(script, wizStep.at + 1, script[wizStep.at + 1],
                     Wiz_update(wiz, script[wizStep.at + 1]))
    /\ UNCHANGED <<byteVars, protoVars, pktVars, serVars, crcVars, ctlVars, spifVars,
                   vcdVars, logic2Vars, logicVars, buildVars, headerVars, descVars, devVars>>

\* wizfi310.rs:39
WizUpstreamErr ==
    /\ WizRunning
    /\ wizStep.n - wizStep.at < MaxErrors
    /\ \E e \in {"upstream", "Unexpected serial error"} :
        WizReturn(wizStep.script, wizStep.at, [kind |-> "Err", msg |-> e],
                  Wiz_Err(wiz, wizStep.n, e))
    /\ UNCHANGED <<byteVars, protoVars, pktVars, serVars, crcVars, ctlVars, spifVars,
                   vcdVars, logic2Vars, logicVars, buildVars, headerVars, descVars, devVars>>

\* wizfi310.rs:37: self.it.next()? on an exhausted upstream
WizEnd ==
    /\ WizRunning
    /\ wizStep.script # <<>>
    /\ wizStep.at = Len(wizStep.script)
    /\ WizReturn(wizStep.script, wizStep.at, EndOfStream, WizOut(wiz, EndOfStream))
    /\ UNCHANGED <<byteVars, protoVars, pktVars, serVars, crcVars, ctlVars, spifVars,
                   vcdVars, logic2Vars, logicVars, buildVars, headerVars, descVars, devVars>>

InitWizfi310 ==
    /\ ByteIdle /\ ProtoIdle /\ PktIdle /\ SerIdle /\ CrcIdle /\ CtlIdle /\ SpifIdle /\ VcdIdle
    /\ Logic2Idle /\ LogicIdle /\ BuildIdle /\ HeaderIdle /\ DescIdle /\ DevIdle /\ WizIdle

NextWizfi310 == WizPull \/ WizUpstreamErr \/ WizEnd

SpecWizfi310 == InitWizfi310 /\ [][NextWizfi310]_vars

----------------------------------------------------------------------------
(* The decoder stages, each on its own: a behaviour runs one stage, fed by  *)
(* every stream of upstream events its actions allow; the four stages with  *)
(* the most inputs are followed over their first events only: two samples,  *)
(* and one event more where the stage looks ahead or buffers                *)

MaxStream == 2

InitErrors ==
    /\ ByteIdle /\ ProtoIdle /\ PktIdle /\ SerIdle /\ CrcIdle /\ CtlIdle /\ SpifIdle /\ VcdIdle
    /\ Logic2Idle /\ LogicIdle /\ BuildIdle /\ HeaderIdle /\ DescIdle /\ DevIdle /\ WizIdle

UsbIdle == ByteIdle /\ PktIdle /\ ProtoIdle /\ CtlIdle /\ DevIdle

SignalAndByteStage ==
    /\ PktIdle /\ ProtoIdle /\ CtlIdle /\ DevIdle /\ SerIdle /\ SpifIdle /\ WizIdle
    /\ sig.n <= MaxStream + 1
    /\ NextByte

PacketStage ==
    /\ ByteIdle /\ ProtoIdle /\ CtlIdle /\ DevIdle /\ SerIdle /\ SpifIdle /\ WizIdle
    /\ Len(buf) <= MaxStream
    /\ NextPacket

ProtocolStage ==
    /\ ByteIdle /\ PktIdle /\ CtlIdle /\ DevIdle /\ SerIdle /\ SpifIdle /\ WizIdle
    /\ NextProtocol

DeviceStage ==
    /\ ByteIdle /\ PktIdle /\ ProtoIdle /\ SerIdle /\ SpifIdle /\ WizIdle
    /\ NextDevice

SerialStage ==
    /\ UsbIdle /\ SpifIdle /\ WizIdle
    /\ serIn.n < MaxStream
    /\ NextSerial

SpifStage ==
    /\ UsbIdle /\ SerIdle /\ WizIdle
    /\ spifStep.n <= MaxStream + 1
    /\ NextSpif

Wizfi310Stage ==
    /\ UsbIdle /\ SerIdle /\ SpifIdle
    /\ NextWizfi310

NextErrors ==
    \/ SignalAndByteStage
    \/ PacketStage
    \/ ProtocolStage
    \/ DeviceStage
    \/ SerialStage
    \/ SpifStage
    \/ Wizfi310Stage

SpecErrors == InitErrors /\ [][NextErrors]_vars

----------------------------------------------------------------------------
(* Claims about the USB byte decoder *)

\* C1: the timestamps of successive events returned by the byte decoder never
\* decrease.  Stated for the case the claim names: the last Byte of a packet
\* (stamped at the end of its J/K period) and the Eop returned right after it
\* (stamped two bit durations before the closing J).
C1_ByteThenEopOrdered ==
    \A i \in 1..(Len(byteOut) - 1) :
        (byteOut[i].kind = "Byte" /\ byteOut[i + 1].kind = "Eop")
            => byteOut[i].ts <= byteOut[i + 1].ts

NotByte(q) == SelectSeq(q, LAMBDA e : e.kind # "Byte")
Kinds(q) == [i \in 1..Len(q) |-> q[i].kind]

\* C6: in every state the decoder emits Reset exactly for an SE0 period longer
\* than 10 ms: one Reset stamped at the SE0's start, counter 0, state Reset; an
\* SE0 period of 10 ms or less never produces Reset.  The period of an SE0 ends
\* where a following J or K starts (neither is ever coalesced into an SE0).
C6_ResetExactlyForLongSE0 ==
    byteStep.n > 0 =>
        LET s == byteStep
            resets == SelectSeq(s.pushed, LAMBDA e : e.kind = "Reset")
            ended == s.sig0 = "SE0" /\ s.head \in {"J", "K"}
            long == ended /\ s.head_ts - s.t0 > ResetLen
        IN /\ s.sig0 # "SE0" => resets = <<>>
           /\ (ended /\ ~long) => resets = <<>>
           /\ long => /\ s.pushed = <<EvOk(s.t0, "Reset")>>
                      /\ byteIt.state = "Reset"
                      /\ byteIt.counter = 0

\* C8 as claimed: in EopStart a J of at least one bit time emits Eop two bit
\* durations before the J's start, Idle one bit duration after it when the J
\* lasts more than one bit time, and goes to Idle; any other signal or length
\* yields an error event and state Idle.  (Stated for the build with overflow
\* checks, where no arithmetic wraps on the way to EopStart.)
C8_EopStartAsClaimed ==
    (overflow_checks /\ byteStep.n > 0 /\ byteStep.before = "EopStart") =>
        LET s == byteStep
            q == NotByte(s.pushed)
        IN IF s.sig0 = "J" /\ s.ulen >= 1
           THEN /\ q = IF s.ulen > 1
                       THEN <<EvOk(s.t0 - 2 * BitLen, "Eop"), EvOk(s.t0 + BitLen, "Idle")>>
                       ELSE <<EvOk(s.t0 - 2 * BitLen, "Eop")>>
                /\ byteIt.state = "Idle"
           ELSE /\ Kinds(q) = <<"Err">>
                /\ byteIt.state = "Idle"

\* C8 amended: as claimed, except that an SE1 yields the "Unexpected bus state"
\* error and leaves the state EopStart, and an SE0 longer than 10 ms yields
\* Reset and state Reset.  Lengths are the decoder's measured, rounded lengths.
C8_EopStart ==
    (byteStep.n > 0 /\ byteStep.before = "EopStart") =>
        LET s == byteStep
            q == NotByte(s.pushed)
        IN CASE s.sig0 = "J" /\ s.ulen >= 1 ->
                  /\ q = IF s.ulen > 1
                         THEN <<EvOk(s.t0 - 2 * BitLen, "Eop"),
                                EvOk(s.t0 + BitLen, "Idle")>>
                         ELSE <<EvOk(s.t0 - 2 * BitLen, "Eop")>>
                  /\ byteIt.state = "Idle"
             [] s.sig0 = "SE1" ->
                  /\ q = <<EvErr(s.t0, "Unexpected bus state")>>
                  /\ byteIt.state = "EopStart"
             [] s.sig0 = "SE0" /\ s.next_ts - s.t0 > ResetLen ->
                  /\ q = <<EvOk(s.t0, "Reset")>>
                  /\ byteIt.state = "Reset"
             [] OTHER ->
                  /\ Kinds(q) = <<"Err">>
                  /\ q[1].ts = s.t0
                  /\ byteIt.state = "Idle"

\* C8 witness: a J of one bit time (Eop alone) was processed in EopStart
C8_Witness ==
    /\ byteStep.before = "EopStart"
    /\ byteStep.sig0 = "J"
    /\ byteStep.ulen = 1
    /\ Kinds(byteStep.pushed) = <<"Eop">>
    /\ byteIt.state = "Idle"

\* C9: measuring a signal, the decoder drops every following signal that equals
\* it or is an SE0/SE1 shorter than half a bit; the signal's duration extends to
\* the start of the first signal that is not dropped.
C9_Coalescing ==
    byteStep.n > 0 =>
        LET s == byteStep
            all == IF s.head \in Signal
                   THEN Append(s.dropped, [ts |-> s.head_ts, sig |-> s.head])
                   ELSE s.dropped
        IN /\ \A i \in 1..Len(s.dropped) :
                \/ s.dropped[i].sig = s.sig0
                \/ /\ s.dropped[i].sig \in {"SE0", "SE1"}
                   /\ i < Len(all)
                   /\ 2 * (all[i + 1].ts - all[i].ts) < BitLen
           /\ s.head \in Signal => (s.head # s.sig0 /\ s.next_ts = s.head_ts)

\* the decoder has consumed the whole line, or has aborted
StuffDone == byteIt.panic # "none" \/ (it = <<>> /\ byteIt.ev_queue = <<>>)

BytesDecoded(bytes) ==
    /\ Len(byteOut) >= Len(bytes)
    /\ \A i \in 1..Len(bytes) : byteOut[i].kind = "Byte" /\ byteOut[i].val = bytes[i]

Decoded(bytes) ==
    /\ BytesDecoded(bytes)
    /\ Len(byteOut) > Len(bytes)
    /\ byteOut[Len(bytes) + 1].kind = "Eop"

StartsPacket(b) == b % 2 = 0 /\ Shr(b, 1) % 64 # 63

----------------------------------------------------------------------------
(* Claims about the USB protocol stage *)

Stepped == protoStep.n > 0
IsTransaction(out) == out # None /\ out.kind = "Transaction"
IsError(out) == out # None /\ out.kind = "Err"

\* C3: a Transaction is emitted only for a HandShake that arrives in state
\* Token(t) or Data{t, d}, and every such HandShake emits one: it carries t, no
\* data (Token) or d (Data) and the handshake, the state becomes Idle, and t is
\* the most recently accepted Token packet.
C3_TransactionOnHandShake ==
    Stepped =>
        LET pkt == protoStep.pkt
            before == protoStep.before
            out == protoStep.out
            pending == pkt.kind = "HandShake" /\ before.kind \in {"Token", "Data"}
        IN /\ IsTransaction(out) <=> pending
           /\ pending =>
                /\ out.token = before.token
                /\ out.token = accepted
                /\ out.data = (IF before.kind = "Token" THEN None ELSE before.data)
                /\ out.handshake = pkt.handshake
                /\ transaction_state = TsIdle

\* C3 witness: a HandShake arrived in state Data and produced the Transaction
\* with the pending token and data
C3_Witness ==
    /\ Stepped
    /\ protoStep.pkt.kind = "HandShake"
    /\ protoStep.before.kind = "Data"
    /\ IsTransaction(protoStep.out)
    /\ protoStep.out.data = protoStep.before.data
    /\ transaction_state = TsIdle

OutOfSequence(pkt, before) ==
    \/ pkt.kind = "Token" /\ before.kind # "Idle"
    \/ pkt.kind = "Data" /\ before.kind # "Token"
    \/ pkt.kind = "HandShake" /\ before.kind = "Idle"

\* C4: every out-of-sequence packet (a Token outside Idle, a Data outside
\* Token, a HandShake in Idle) yields an error event and no Transaction.
C4_OutOfSequenceIsError ==
    (Stepped /\ OutOfSequence(protoStep.pkt, protoStep.before))
        => IsError(protoStep.out)

\* C4 witness: a Data packet arrived while a token and data were already pending
C4_Witness ==
    /\ Stepped
    /\ protoStep.pkt.kind = "Data"
    /\ protoStep.before.kind = "Data"
    /\ IsError(protoStep.out)

\* C5: a Reset or SoF packet is passed through as its own event and leaves the
\* transaction state Idle.
C5_ResetAndSoFToIdle ==
    (Stepped /\ protoStep.pkt.kind \in {"Reset", "SoF"})
        => /\ protoStep.out # None
           /\ protoStep.out.kind = (IF protoStep.pkt.kind = "Reset" THEN "Reset" ELSE "Sof")
           /\ transaction_state = TsIdle

----------------------------------------------------------------------------
(* Claims about the USB packet decoder *)

AtEop == pktStep.n > 0 /\ pktStep.byte.kind = "Eop"

\* C10: at an Eop the packet decoder yields a SoF or Token only when crc5 over
\* the two bytes after the PID is 0x0C and a Data packet only when crc16 over
\* all bytes after the PID is 0x800D; a buffer shaped as one of these whose
\* check fails yields an error; a Token has address = low & 0x7F and
\* endpoint = ((high & 7) << 1) | (low >> 7).
C10_CrcChecked ==
    AtEop =>
        LET b == pktStep.before
            out == pktStep.out
            short == Len(b) = 4 /\ b[1] = 128
            long == Len(b) >= 4 /\ b[1] = 128 /\ b[2] \in DATA_PIDS
        IN /\ out.kind \in {"SoF", "Token"} => short /\ crc5(<<b[3], b[4]>>) = 12
           /\ out.kind = "Data" => long /\ crc16(SubSeq(b, 3, Len(b))) = 32781
           /\ (short /\ b[2] \in TOKEN_PIDS \cup {SOF_PID} /\ crc5(<<b[3], b[4]>>) # 12)
                => out.kind = "Err"
           /\ (long /\ crc16(SubSeq(b, 3, Len(b))) # 32781) => out.kind = "Err"
           /\ out.kind = "Token" =>
                /\ out.token.address = b[3] % 128
                /\ out.token.endpoint = (b[4] % 8) * 2 + (b[3] \div 128)

\* C10 witness: a Setup token with a good CRC was decoded to address 2,
\* endpoint 13
C10_Witness ==
    /\ AtEop
    /\ pktStep.before = <<128, 45, 130, 238>>
    /\ pktStep.out.kind = "Token"
    /\ pktStep.out.token = [token_type |-> "Setup", address |-> 2, endpoint |-> 13]

----------------------------------------------------------------------------
(* Claims about the serial decoder *)

\* C2: the serial decoder returns its events in non-decreasing timestamp order
\* over the whole stream.
C2_SerialOrdered ==
    \A i \in 1..(Len(serOut) - 1) : serOut[i].ts <= serOut[i + 1].ts

----------------------------------------------------------------------------
(* Claims about crc5 and crc16 *)

\* C11: crc5 returns 0x0C for the bytes [0x00, 0x10], and crc16 returns 0xFFFF
\* for the empty input.
C11_CrcValues ==
    crcOut # None =>
        /\ crcIn = <<0, 16>> => crcOut.crc5 = 12
        /\ crcIn = <<>> => crcOut.crc16 = 65535

\* C11 witness: crc5 was applied to [0x00, 0x10] and returned 0x0C
C11_Witness ==
    /\ crcIn = <<0, 16>>
    /\ crcOut # None
    /\ crcOut.crc5 = 12

----------------------------------------------------------------------------
(* More claims about the USB packet decoder *)

C13_NeverAborts == pktStep.out.kind # "Panic"

----------------------------------------------------------------------------
(* Claims about the USB control endpoint *)

Updated == ctlStep.n > 0

Acked == Updated /\ ctlStep.transaction.handshake = "Ack"

\* the last transaction carried a data packet with an empty payload and PID Data1
EmptyData1 ==
    /\ ctlStep.transaction.data # None
    /\ ctlStep.transaction.data.payload = <<>>
    /\ ctlStep.transaction.data.pid = "Data1"

\* C14: a transaction whose handshake is NAck produces no event and leaves the
\* request state (Idle, Data with its request and buffer, Status) as it was.
C14_NAckIgnored ==
    (Updated /\ ctlStep.transaction.handshake = "NAck") =>
        /\ ctlStep.out = None
        /\ request_state = ctlStep.before

C14_Witness ==
    /\ Updated
    /\ ctlStep.transaction.handshake = "NAck"
    /\ request_state.kind = "Data"
    /\ request_state.buffer = Some(<<1>>)

\* C15: whenever update returns an error, the request state is Idle afterwards,
\* whatever the state was before.
C15_ErrorLeavesIdle ==
    (Updated /\ ctlStep.out.kind = "Err") => request_state = RsIdle

C15_Witness ==
    /\ Updated
    /\ ctlStep.before.kind = "Data"
    /\ ctlStep.out = CtlErr("combined payload exceed expected size.")
    /\ request_state = RsIdle

\* an 8-byte Setup, acknowledged, received in Idle
SetupInIdle ==
    /\ Acked
    /\ ctlStep.before = RsIdle
    /\ ctlStep.transaction.token.token_type = "Setup"
    /\ ctlStep.transaction.data # None
    /\ Len(ctlStep.transaction.data.payload) = 8

wLength == u16_from_le_bytes(ctlStep.transaction.data.payload[7],
                             ctlStep.transaction.data.payload[8])

\* C16: every acknowledged 8-byte Setup received in Idle leaves Idle, for Status
\* when wLength is 0 and for Data otherwise, whatever bmRequestType is.
C16_SetupLeavesIdle ==
    SetupInIdle =>
        /\ ctlStep.out = None
        /\ request_state.kind = IF wLength = 0 THEN "Status" ELSE "Data"

\* an acknowledged In or Out received in Data
InOutInData ==
    /\ Acked
    /\ ctlStep.before.kind = "Data"
    /\ ctlStep.transaction.token.token_type \in {"In", "Out"}

Opposite ==
    InOutInData /\ ctlStep.transaction.token.token_type # ctlStep.before.request.direction

Matching ==
    InOutInData /\ ctlStep.transaction.token.token_type = ctlStep.before.request.direction

EarlyStatus == RsStatus(ctlStep.before.request, ctlStep.before.buffer, TRUE)

\* C17 as stated: after an In/Out against the request's direction in Data, the
\* endpoint is in Status marked early with the bytes accumulated so far.
C17_EarlyStatusAsClaimed == Opposite => request_state = EarlyStatus

\* C17: an In/Out against the request's direction in Data takes the endpoint
\* through Status marked early, carrying the bytes accumulated so far and not
\* the transaction's payload, and the same transaction is then handled as the
\* status stage: the endpoint ends in Idle, silently when the request's
\* direction is In and the transaction carries an empty Data1 packet, with an
\* error otherwise.
C17_EarlyStatus ==
    Opposite =>
        /\ ctlStep.via = EarlyStatus
        /\ request_state = RsIdle
        /\ ctlStep.out = None <=> (ctlStep.before.request.direction = "In" /\ EmptyData1)
        /\ ctlStep.out # None => ctlStep.out.kind = "Err"

C17_Witness ==
    /\ Opposite
    /\ ctlStep.before.buffer = Some(<<1>>)
    /\ ctlStep.transaction.data # None
    /\ ctlStep.transaction.data.payload = <<1>>
    /\ ctlStep.via = EarlyStatus
    /\ request_state = RsIdle

Accumulated == IF ctlStep.before.buffer = None THEN <<>> ELSE ctlStep.before.buffer.v

\* the last transaction carried a data packet that fits in the rest of the buffer
Fits ==
    /\ ctlStep.transaction.data # None
    /\ Len(ctlStep.transaction.data.payload) + Len(Accumulated)
           <= ctlStep.before.request.length

\* the payload is appended; Status exactly on a ZLP or a full buffer; no event
Appended ==
    /\ ctlStep.transaction.data # None
    /\ ctlStep.out = None
    /\ request_state.kind \in {"Data", "Status"}
    /\ request_state.request = ctlStep.before.request
    /\ request_state.buffer = Some(Accumulated \o ctlStep.transaction.data.payload)
    /\ request_state.kind = "Status" <=>
           \/ ctlStep.transaction.data.payload = <<>>
           \/ Len(request_state.buffer.v) = ctlStep.before.request.length
    /\ request_state.kind = "Status" => ~request_state.is_early_status

\* C18 as stated: every In/Out in the request's direction in Data appends its
\* payload and emits no event.
C18_AppendAsClaimed == Matching => Appended

\* C18: an In/Out in the request's direction in Data whose data packet fits in
\* the rest of the buffer appends its payload, moves to Status exactly when
\* the payload is empty or the buffer has reached wLength bytes, stays in Data
\* otherwise, and emits no event; without a data packet, or with a payload that
\* does not fit, it returns an error and the endpoint is Idle.
C18_Append ==
    Matching =>
        /\ Fits => Appended
        /\ ~Fits => (ctlStep.out.kind = "Err" /\ request_state = RsIdle)

C18_Witness ==
    /\ Matching
    /\ ctlStep.before.buffer = Some(<<1>>)
    /\ ctlStep.before.request.length > 1
    /\ ctlStep.transaction.data # None
    /\ ctlStep.transaction.data.payload = <<>>
    /\ request_state = RsStatus(ctlStep.before.request, Some(<<1>>), FALSE)

\* an acknowledged In or Out received in Status
InOutInStatus ==
    /\ Acked
    /\ ctlStep.before.kind = "Status"
    /\ ctlStep.transaction.token.token_type \in {"In", "Out"}

\* C19: every acknowledged In/Out in Status returns the endpoint to Idle; it is
\* accepted without error only when it carries a data packet with an empty
\* payload and PID Data1, and is an error otherwise.
C19_StatusToIdle ==
    InOutInStatus =>
        /\ request_state = RsIdle
        /\ ctlStep.out = None <=> EmptyData1
        /\ ctlStep.out # None => ctlStep.out.kind = "Err"

C19_Witness ==
    /\ InOutInStatus
    /\ ctlStep.before.buffer # None
    /\ ctlStep.transaction.data = [pid |-> "Data0", payload |-> <<>>]
    /\ ctlStep.out.kind = "Err"
    /\ request_state = RsIdle

----------------------------------------------------------------------------
(* More claims about the serial decoder *)

\* C20: no input sample makes a monitor abandon a frame in Start or Data: a
\* monitor that Monitor::update left in Start or Data, the states it moves
\* through along Idle -> Start -> Data -> Stop -> Idle, is still in that state
\* when Serial::next has handled the sample, and it returns to Idle only from
\* Stop.
C20_FrameKept ==
    serStep.n > 0 =>
        /\ serStep.rx \in {"Start", "Data"} => rx.state = serStep.rx
        /\ serStep.tx \in {"Start", "Data"} => tx.state = serStep.tx

----------------------------------------------------------------------------
(* The serial framing scenario *)

IsTx55(e) == e.kind = "Tx" /\ e.val = 85

\* C21: on the scenario's sample stream the serial decoder emits Tx(0x55), and
\* no TxError before it: no TxError is returned that is not preceded by
\* Tx(0x55), and once the stream up to the sample that follows the stop bit
\* has been handled, Tx(0x55) has been returned.
C21_ScenarioEmitsByte ==
    /\ \A i \in 1..Len(serOut) :
           serOut[i].kind = "TxError" => \E j \in 1..(i - 1) : IsTx55(serOut[j])
    /\ (serIn.n = ScenarioLen /\ pending_event = <<>>) =>
           \E j \in 1..Len(serOut) : IsTx55(serOut[j])

----------------------------------------------------------------------------
(* Claims about the SPI-Flash decoder *)

AccumulatingKinds == {"Read", "PageProgram", "ReadSFDP"}

Deselected == spifStep.ev.kind = "ChipSelect" /\ spifStep.ev.level

\* the data bytes of the command whose words are w: MOSI for PageProgram, MISO
\* for Read and ReadSFDP
DataOf(kind, w) ==
    [i \in 1..(Len(w) - 4) |->
        IF kind = "PageProgram" THEN w[i + 4].mosi ELSE w[i + 4].miso]

\* C22: for a Read (0x03), PageProgram (0x02) or ReadSFDP (0x5A) command, the
\* three bytes after the command byte are a 24-bit big-endian address, every
\* later byte of the window is data (MISO for Read and ReadSFDP, MOSI for
\* PageProgram), nothing is returned while they arrive, and the de-assertion of
\* chip select returns exactly that command, stamped with the command byte's
\* time, and leaves no partial command.
C22_AddressThenData ==
    LET w == spifWin.since
        p == spifStep.before.partial
    IN /\ (Deselected /\ p # None /\ p.kind \in AccumulatingKinds /\ Len(w) >= 4) =>
              /\ p.kind = (CASE w[1].mosi = 3 -> "Read"
                             [] w[1].mosi = 2 -> "PageProgram"
                             [] w[1].mosi = 90 -> "ReadSFDP"
                             [] OTHER -> "None")
              /\ spifStep.out =
                     SpifOk(w[1].ts,
                            [kind |-> p.kind,
                             addr |-> w[2].mosi * 65536 + w[3].mosi * 256 + w[4].mosi,
                             data |-> DataOf(p.kind, w)])
              /\ partial = None
       /\ (spifStep.ev.kind = "Data" /\ partial # None
              /\ partial.kind \in AccumulatingKinds) => spifStep.out = None

C22_Witness ==
    /\ Deselected
    /\ spifStep.before.partial # None
    /\ spifStep.before.partial.kind = "PageProgram"
    /\ Len(spifWin.since) = 5
    /\ spifStep.out = SpifOk(spifWin.since[1].ts,
                             [kind |-> "PageProgram", addr |-> 197122, data |-> <<90>>])

\* C23: between a ChipSelect(false) and the ChipSelect(true) that follows it
\* the decoder returns at most one event (a command, or the error for an
\* unknown first byte): a later word of the window is not taken as a command
\* byte again.
C23_OneCommandPerWindow == spifWin.outs <= 1

----------------------------------------------------------------------------
(* Claims about the VCD source *)

\* the last step read a Timestamp command whose time lies before the time of
\* the Timestamp command read before it
Backwards ==
    /\ vcdStep.cmd.kind = "Timestamp"
    /\ vcdStep.prev >= 0
    /\ vcdStep.cmd.ts * vcdStep.before.factor < vcdStep.prev

MonotonicError(e) == e.kind = "Err" /\ e.v = "Timestamp must be monotonic"

\* C24: the timestamps of the events the VCD source returns never decrease; a
\* Timestamp command that goes backwards makes it return one error, which stays
\* the last event it ever returns: every later pull returns None.
C24_MonotonicOrStopped ==
    /\ \A i \in 1 .. Len(vcdOut) : \A j \in i .. Len(vcdOut) :
          vcdOut[i].ts <= vcdOut[j].ts
    /\ Backwards =>
          /\ MonotonicError(vcdStep.out)
          /\ vcdOut # <<>> /\ vcdOut[Len(vcdOut)] = vcdStep.out
    /\ \A i \in 1 .. Len(vcdOut) :
          MonotonicError(vcdOut[i]) => i = Len(vcdOut) /\ vcd.stopped
    /\ vcdStep.before.stopped => vcdStep.out = EndOfStream

\* a Sample, then the error of a Timestamp that went backwards, then a pull
\* that found the parser stopped
C24_Witness ==
    /\ Len(vcdOut) = 2
    /\ vcdOut[1].kind = "Sample"
    /\ MonotonicError(vcdOut[2])
    /\ vcdStep.before.stopped
    /\ vcdStep.out = EndOfStream

\* C25: the first event the VCD source returns carries the timestamp -0.1 s,
\* whatever the first Timestamp command says and however many Timestamp
\* commands come before the first value change.
C25_FirstEventAtPreTrigger ==
    vcdOut # <<>> => vcdOut[1].ts = -PreTrigger

\* C26: two Samples the source returns one after the other differ in value: a
\* ChangeScalar that leaves the channel state as it was returns no Sample.
C26_ConsecutiveSamplesDiffer ==
    \A i \in 1 .. Len(vcdOut) - 1 :
        vcdOut[i].kind = "Sample" /\ vcdOut[i + 1].kind = "Sample"
            => vcdOut[i].v # vcdOut[i + 1].v

----------------------------------------------------------------------------
(* Claims about the multi-file digital source *)

\* the channels with a transition in the 1 ns that begin at ts
Within(ts) ==
    {id \in ChannelIds :
        \E t \in channels.files[id].transitions : ts <= t /\ t - ts < Nanosecond}

\* the channels whose bit differs between two states
Differing(x, y) ==
    {id \in ChannelIds : BitOp("and", BitOp("xor", x, y, 8), Pow2(id), 8) # 0}

\* the state returned before the i-th Sample, the initial state before the first
Previous(i) ==
    IF i = 1 THEN InitialState(channels.files) ELSE logic2Out[i - 1].v

\* C27: the bits in which a Sample of the multi-file source differs from the
\* state before it are the channels with a transition within 1 ns of the
\* Sample's timestamp, also when a channel has two transitions less than 1 ns
\* apart.
C27_ToggledAreWithin ==
    \A i \in 1 .. Len(logic2Out) :
        Differing(Previous(i), logic2Out[i].v) = Within(logic2Out[i].ts)

\* C28: the first event of the multi-file source is the initial state, the OR
\* of 1 << id over the channels whose initial_state is set, at t = 0, before
\* any transition is applied.
C28_InitialStateFirst ==
    logic2Out # <<>> =>
        /\ logic2Out[1].ts = 0
        /\ logic2Out[1].v = InitialState(channels.files)

----------------------------------------------------------------------------
(* Claims about the binary single-channel source *)

LogicErrors(out) == {i \in 1 .. Len(out) : out[i].kind = "Err"}

\* C29: once its input is used up or a read fails, the binary single-channel
\* source returns at most one error and None on every pull after it.
C29_OneErrorThenEnd ==
    /\ Cardinality(LogicErrors(logicOut)) <= 1
    /\ logicStep.of = "source" /\ LogicErrors(logicStep.before) # {}
          => logicStep.out = EndOfStream

----------------------------------------------------------------------------
(* Claims about the stage builders *)

\* the payload types of the USB chain, each the input of the stage that
\* reports the next one
Chain == <<"Sample", "Signal", "Byte", "Packet", "protocol::Event", "DeviceEvent">>

Rank(event_type) == CHOOSE i \in 1 .. Len(Chain) : Chain[i] = event_type

UsbBuilders ==
    {"usb::signal", "usb::byte", "usb::packet", "usb::protocol", "usb::device"}

OutputOf(builder) ==
    CASE builder = "usb::signal" -> "Signal"
      [] builder = "usb::byte" -> "Byte"
      [] builder = "usb::packet" -> "Packet"
      [] builder = "usb::protocol" -> "protocol::Event"
      [] builder = "usb::device" -> "DeviceEvent"

InputOf(builder) == Chain[Rank(OutputOf(builder)) - 1]

RECURSIVE Fed(_, _)
\* from stage down to base every stage is the one that follows its input in
\* the chain, and downcasts to the type its input reports
Fed(stage, base) ==
    IF stage = base THEN TRUE
    ELSE IF stage.it = None THEN FALSE
    ELSE /\ stage.downcast = stage.it.event_type
         /\ Rank(stage.event_type) = Rank(stage.downcast) + 1
         /\ Fed(stage.it, base)

BuiltOn(before, builder) ==
    /\ buildStep.panic = None
    /\ Len(pipeline) = Len(before)
    /\ SubSeq(pipeline, 1, Len(pipeline) - 1) = SubSeq(before, 1, Len(before) - 1)
    /\ Top(pipeline).event_type = OutputOf(builder)
    /\ Top(pipeline).downcast = InputOf(builder)
    /\ Fed(Top(pipeline), Top(before))

FailedOn(before) ==
    /\ pipeline = before
    /\ buildStep.panic = Some(<<"Invalid input type. Exected {} but got {}", "Sample",
                                Top(before).event_type>>)

\* C30: a USB stage builder fails on an empty stack; on a stack whose top
\* reports a type of the chain up to the builder's input it builds the stages
\* in between and itself, each fed the type it downcasts to, leaves the depth of
\* the stack as it was and reports its output type; on any other top
\* usb::signal fails, naming Sample and the top's type.
C30_BuildersChain ==
    buildStep.builder \in UsbBuilders =>
        IF buildStep.before = <<>> THEN buildStep.panic # None /\ pipeline = <<>>
        ELSE IF Rank(Top(buildStep.before).event_type) <= Rank(InputOf(buildStep.builder))
        THEN BuiltOn(buildStep.before, buildStep.builder)
        ELSE FailedOn(buildStep.before)

\* usb::packet called on a source: usb::signal and usb::byte are built first
C30_Witness ==
    /\ buildStep.builder = "usb::packet"
    /\ buildStep.panic = None
    /\ Top(buildStep.before).event_type = "Sample"
    /\ Top(pipeline).event_type = "Packet"
    /\ Top(pipeline).it.it.it = Top(buildStep.before)

----------------------------------------------------------------------------
(* Further claims about the USB byte decoder *)

\* C33: when the byte decoder, in Receiving, processes an SE0 of exactly two
\* bit times its bit counter is 0: the assertion made on entering EopStart
\* never fails.
C33_EopOnByteBoundary ==
    byteStep.before = "Receiving" /\ byteStep.sig0 = "SE0" /\ byteStep.ulen = 2
        => byteIt.panic = "none"

\* C34: a J or K period that rounds to 0 bit times, met in Idle or Receiving,
\* is handled without underflow or abort: the consecutive-ones count stays
\* within 0..7 and the bit counter within 0..15.
C34_ZeroLengthPeriod ==
    byteStep.before \in {"Idle", "Receiving"} /\ byteStep.sig0 \in {"J", "K"}
    /\ byteStep.ulen = 0
        => /\ byteIt.panic = "none"
           /\ byteIt.consecutive_ones \in 0 .. 7
           /\ byteIt.counter \in 0 .. 15

\* C37: whenever the byte decoder is in Idle its bit counter is 0.
C37_IdleCounterZero ==
    byteIt.state = "Idle" => byteIt.counter = 0

----------------------------------------------------------------------------
(* Further claims about the USB protocol stage *)

SequencingError(out) ==
    /\ out.kind = "Err"
    /\ out.msg \in {"Unexpected token packet", "Unexpected data packet",
                    "Unexpected handshake packet"}

\* C35: after the protocol stage returns a sequencing error (unexpected token,
\* data or handshake packet) its transaction state is Idle: the token and data
\* pending before the error are used in no later Transaction.
C35_SequencingErrorToIdle ==
    SequencingError(protoStep.out) => transaction_state = TsIdle

----------------------------------------------------------------------------
(* Claims about the file header of a Logic 2 export *)

\* the value of the four bytes of buffer from position at, least significant
\* byte first
LittleEndian(buffer, at) ==
    buffer[at] + buffer[at + 1] * 256 + buffer[at + 2] * 256 * 256
        + buffer[at + 3] * 256 * 256 * 256

\* C32: parse_common_header succeeds exactly on a buffer of 16 bytes that
\* begins with "<SALEAE>", and returns the little-endian u32 values of bytes
\* 8..12 and 12..16 as (version, file_type); any other length or prefix is an
\* error.
C32_CommonHeader ==
    parsed # None =>
        IF Len(header) = 16 /\ \A i \in 1 .. 8 : header[i] = SALEAE[i]
        THEN parsed = Ok(<<LittleEndian(header, 9), LittleEndian(header, 13)>>)
        ELSE ~parsed.ok

\* the header of the unit test: version 1, file type 2
C32_Witness ==
    /\ header = SALEAE \o <<1, 0, 0, 0>> \o <<2, 0, 0, 0>>
    /\ parsed = Ok(<<1, 2>>)

----------------------------------------------------------------------------
(* Claims about the USB descriptors *)

ReservedBits(attributes) == BitOp("and", attributes, 252, 8)

\* C36: parsing an endpoint descriptor whose transfer type is Control, Bulk or
\* Interrupt fails when a reserved bit (2..7) of the attributes byte is set
\* and succeeds without sync or usage sub-fields when they are clear; for
\* Isochronous the sync type is bits 2..3 and the usage type bits 4..5.
\* Stated on the attributes byte of each endpoint descriptor whose other
\* fields were accepted.
C36_ReservedBitsRejected ==
    (ifaceStep.kind = "EndpointDescriptor"
     /\ ifaceStep.before[2] = ENDPOINT_DESCRIPTOR
     /\ BitOp("and", ifaceStep.before[3], 112, 8) = 0)
        => ifaceStep.transfer = TransferType_try_from_checked(ifaceStep.before[4])

\* C38: inside an interface descriptor each class-specific descriptor consumed
\* before the endpoint descriptors strictly shortens the remaining buffer, so
\* the parse terminates.
C38_ClassDescriptorShortens ==
    (ifaceStep.kind = "Class" /\ iface.pc = "class")
        => Len(read_ptr) < Len(ifaceStep.before)

----------------------------------------------------------------------------
(* Claims about the USB device stage *)

InvalidEndpoint(out) == out.kind = "Err" /\ out.msg = "Invalid endpoint"

\* C39: a transaction addressed to endpoint 1, 2, 3 or 6 is dispatched to the
\* CDC handler of that endpoint whether or not an endpoint-0 transaction has
\* been processed before it; 'Invalid endpoint' is reported only for endpoint
\* numbers outside {0, 1, 2, 3, 6}.
C39_CdcEndpointsAlwaysKnown ==
    (devStep.event.kind = "Transaction"
     /\ devStep.event.transaction.token.endpoint \in CdCEndpoints)
        => /\ ~InvalidEndpoint(devStep.out)
           /\ devStep.out = CdCEndpoint_update(devStep.event.transaction)

AckedValidSetup(event) ==
    /\ event.kind = "Transaction"
    /\ event.transaction.token.endpoint = 0
    /\ event.transaction.token.token_type = "Setup"
    /\ event.transaction.handshake = "Ack"
    /\ event.transaction.data # None
    /\ Request_try_from(event.transaction.data.payload).ok

\* C40: after the device stage emits DeviceEvent::Reset, an ACKed Setup
\* transaction with a valid request is accepted as the start of a new control
\* transfer, whatever stage (Data or Status) was in progress before the Reset.
C40_SetupAfterReset ==
    (devStep.prev = "Reset" /\ AckedValidSetup(devStep.event))
        => /\ devStep.out = None
           /\ request_state.kind \in {"Data", "Status"}

----------------------------------------------------------------------------
(* Claims about upstream errors *)

\* how many events of s are upstream errors; upstream(e) tells one
Count(s, upstream(_)) == Cardinality({i \in 1 .. Len(s) : upstream(s[i])})

SignalPassed(e) == e.sig = "Err"
BytePassed(e) == e.kind = "Err" /\ e.msg = "upstream"

\* the errors the signal stage has pulled are those it has handed to the byte
\* decoder, and the byte decoder has returned those it has taken; the last
\* one carries the timestamp it came with
ByteStagePasses ==
    /\ Count(it, SignalPassed) + Count(byteOut, BytePassed) = sig.errs
    /\ sig.last = "Err" =>
         IF it # <<>> THEN it[Len(it)] = [ts |-> sig.ts, sig |-> "Err"]
         ELSE byteOut # <<>> /\ byteOut[Len(byteOut)] = EvErr(sig.ts, "upstream")

\* the byte decoder returns an upstream error when none of its own events is
\* queued, for the error at the head of its input, which it consumes
ByteStageInOrder ==
    (Len(byteOut') = Len(byteOut) + 1 /\ BytePassed(byteOut'[Len(byteOut')]))
        => /\ byteIt.ev_queue = <<>>
           /\ it # <<>>
           /\ Head(it) = [ts |-> byteOut'[Len(byteOut')].ts, sig |-> "Err"]
           /\ it' = Tail(it)
           /\ byteIt' = byteIt

PacketStagePasses == pktStep.byte.kind = "Err" => pktStep.out = PktErr("upstream")

ProtocolStagePasses == protoStep.pkt.kind = "Err" => protoStep.out = OutErr("upstream")

DeviceStagePasses ==
    devStep.event.kind = "Err"
        => devStep.out = devStep.event /\ devStep.ts = devStep.n - 1

\* the serial decoder returns an upstream error when none of its own events
\* is pending, with the timestamp of the sample position it was pulled at
SerialStageInOrder ==
    (Len(serOut') = Len(serOut) + 1 /\ serOut'[Len(serOut')].kind = "Err")
        => /\ pending_event = <<>>
           /\ serIn'.n = serIn.n + 1
           /\ serOut'[Len(serOut')].ts = serIn'.ts
           /\ UNCHANGED <<rx, tx, pending_event>>

SpifStagePasses ==
    spifStep.ev.kind = "Err" => spifStep.out = SpifErr(spifStep.n, "upstream")

Wizfi310StagePasses ==
    wizStep.ev.kind = "Err"
        => wizStep.out = [kind |-> "Err", ts |-> wizStep.ts, msg |-> wizStep.ev.msg]

====
